---- MODULE Spec2Model ----
(***************************************************************************)
(* State-machine model of the grid drawing widget                          *)
(* (src/better_animation/script.js): the GridDrawingApp path builder and   *)
(* its path history, the RectangleDrawer, the drawing-mode toggle and the  *)
(* render surface they share.  One action per event handler; a handler's   *)
(* action includes every call the handler makes, and an event of the       *)
(* surface or of a shared button runs the listeners of both components,    *)
(* GridDrawingApp's first.                                                 *)
(***************************************************************************)
EXTENDS Integers, Sequences, FiniteSets, TLC

(***************************************************************************)
(* Bounds of the model.                                                    *)
(***************************************************************************)
\* longest in-progress point sequence / most live SVG elements (the grid
\* group included) explored by the application specification Spec
MaxPoints == 3
MaxElems == 3
\* longest point sequence of the single-gesture specification SpecGesture
MaxPointsG == 6
\* and for the style specification SpecStyle
MaxPointsS == 3
MaxElemsS == 2
\* for the whole-canvas specification SpecCanvas: points of a gesture and
\* live elements of RectangleDrawer (rectangles and labels)
MaxPointsC == 3
MaxRectElemsC == 2
\* points of a gesture of the specification SpecLayers
MaxPointsL == 2
\* live elements of RectangleDrawer in the rectangle specification SpecBox
MaxRectElemsB == 3
\* and in the selection specification SpecSelect
MaxRectElemsT == 4
\* in the routing specification SpecRoute
MaxRectElemsR == 2
\* in the specification SpecOrdered of the ordered events
MaxRectElemsO == 2
\* packets of the specification SpecPackets
MaxPackets == 2
\* and in the dialog specification SpecDialog
MaxRectElemsD == 2

(***************************************************************************)
(* Inputs: raw pointer coordinates and control values.                     *)
(***************************************************************************)
RawX == {12, 35}
RawY == {5, 12}
RawXOne == {12}
RawYOne == {12}
GridSizes == {20, 30}
GridSizeOne == {20}
LineColors == {"#000000", "#ff0000"}
LineColorOne == {"#000000"}
LineThicknesses == {2, 3}
LineThicknessOne == {2}
DashArrays == {5, 6}
DashArrayOne == {5}
DrawingTypes == {"line", "box"}
\* raw x coordinates for two rectangles side by side
RawXWide == {12, 35, 55}
\* raw coordinates and grid sizes for rectangles five units wide
RawBox == {12, 16}
GridSizesBox == {5, 20}

VARIABLES
  currentType,    \* ToggleManager.currentType
  settings,       \* GridDrawingApp.settings
  svgChildren,    \* children of svgElement, bottom-most first (element ids)
  elem,           \* the SVG element objects: id -> tag and attributes
  currentPath,    \* GridDrawingApp.currentPath (element id or Null)
  pathPoints,     \* GridDrawingApp.pathPoints
  lastGridPoint,  \* GridDrawingApp.lastGridPoint (point or NoPoint)
  pathHistory,    \* GridDrawingApp.pathHistory (element ids)
  isDrawing,      \* GridDrawingApp.isDrawing
  jumps,          \* history variable: for every accepted extend of the
                  \* gesture in progress, "S" when the new point shares a
                  \* coordinate with the last one and "D" when it shares none
  rectangleD,     \* the RectangleDrawer object: isDrawing, currentRect,
                  \* selectedRect, selectedRectTXT, undoStack, text_rects,
                  \* descriptions; view, the state of the dialog of the
                  \* descriptions: "closed", "viewer" or "editor"; the
                  \* history edited, the rectangle whose double click opened
                  \* the dialog; and a history
                  \* field, dragStart: the snapped point of the mousedown
                  \* that began the rectangle in progress
  rectElem,       \* the <rect> and <text> element objects: id -> attributes
  pathOutput,     \* controls.pathOutput.textContent: the descriptors shown
  call,           \* the last direct call of a pure method: name, arguments
                  \* and returned value
  pointerDown,    \* history variable of the order of the events: TRUE from
                  \* a mousedown to the mouseup or mouseleave that follows it
  packetManager   \* the PacketAnimationManager object: path, packets,
                  \* animationState, and the display of its dialog and the
                  \* disabled flags of its three buttons

vars == <<currentType, settings, svgChildren, elem, currentPath, pathPoints,
          lastGridPoint, pathHistory, isDrawing, jumps, rectangleD, rectElem,
          pathOutput, call, pointerDown, packetManager>>

(***************************************************************************)
(* Values.                                                                 *)
(***************************************************************************)
\* the null reference of currentPath
Null == 0
\* the null value of lastGridPoint
NoPoint == [null |-> TRUE]
\* an id that holds no element object
NoElem == [tag |-> "none"]

Point(px, py) == [x |-> px, y |-> py]

Range(s) == {s[i] : i \in 1..Len(s)}

Abs(n) == IF n < 0 THEN -n ELSE n

\* two points that differ in x and in y
BothAxesDiffer(p, q) == p.x # q.x /\ p.y # q.y

\* two points that differ in x or in y, and not in both
OneAxisDiffers(p, q) == (p.x # q.x) # (p.y # q.y)

Min(S) == CHOOSE m \in S : \A n \in S : m <= n

Max(S) == CHOOSE m \in S : \A n \in S : m >= n

\* enough ids for the live elements of every specification: the grid group,
\* a path, and the rectangles and labels
ElemIds == 1..Max({MaxElems, MaxElemsS, 2 + MaxRectElemsC, 1 + MaxRectElemsB, 1 + MaxRectElemsT, 2 + MaxRectElemsD, 2 + MaxRectElemsR, 2 + MaxRectElemsO, 2 + MaxPackets})

\* a rounding of a / b in which a tie goes to the smaller integer
MathRoundHalfDown(a, b) == (2 * a + b - 1) \div (2 * b)

\* Math.round(a / b) for integers a and b > 0: the nearest integer, a tie
\* going to the larger one
MathRound(a, b) == (2 * a + b) \div (2 * b)

(***************************************************************************)
(* The DOM: element objects and the surface.                               *)
(***************************************************************************)
\* the ids whose objects the program can still reach
Reachable(children, hist, cur) == Range(children) \cup Range(hist) \cup {cur, packetManager.path}

\* element objects no longer referenced are dropped
Collect(e, children, hist, cur) ==
  [i \in ElemIds |-> IF i \in Reachable(children, hist, cur) THEN e[i] ELSE NoElem]

\* document.createElementNS: a new object, distinct from every live one
FreshId == Min({i \in ElemIds : elem[i] = NoElem /\ rectElem[i] = NoElem})

LiveElems == {i \in ElemIds : elem[i] # NoElem}

\* the <rect> and <text> objects the program can still reach
LiveRectElems == {i \in ElemIds : rectElem[i] # NoElem}

\* the first and second components of the [rectangle, textSvg] pairs
PairRects(pairs) == {pairs[i][1] : i \in 1..Len(pairs)}
PairTexts(pairs) == {pairs[i][2] : i \in 1..Len(pairs)}

\* the ids whose objects RectangleDrawer or the surface still reference
ReachableRects(children, rd) ==
  Range(children) \cup Range(rd.undoStack)
    \cup {rd.currentRect, rd.selectedRect, rd.selectedRectTXT, rd.edited}
    \cup PairRects(rd.text_rects) \cup PairTexts(rd.text_rects)
    \cup PairRects(rd.descriptions)
    \cup {packetManager.packets[i].element : i \in 1..Len(packetManager.packets)}

CollectRects(e, children, rd) ==
  [i \in ElemIds |-> IF i \in ReachableRects(children, rd) THEN e[i] ELSE NoElem]

\* svgElement.removeChild(node), node being a child
RemoveChild(children, node) ==
  LET keep(i) == i # node IN SelectSeq(children, keep)

\* the <g class="grid-group"> that drawGrid builds for a grid size
GridGroup(size) == [tag |-> "g", size |-> size]

\* drawGrid without the removal of the old grid group
drawGridKeepsOld(size) ==
  LET gridGroup == FreshId
  IN /\ svgChildren' = <<gridGroup>> \o svgChildren
     /\ elem' = [elem EXCEPT ![gridGroup] = GridGroup(size)]

\* drawGrid: the old grid group, when there is one, is removed, and the new
\* one is inserted before the first child
drawGrid(size) ==
  LET grids == {i \in 1..Len(svgChildren) : elem[svgChildren[i]].tag = "g"}
      oldGrid == IF grids = {} THEN Null ELSE svgChildren[Min(grids)]
      rest == IF oldGrid = Null THEN svgChildren ELSE RemoveChild(svgChildren, oldGrid)
      gridGroup == IF oldGrid = Null THEN FreshId ELSE oldGrid
  IN /\ svgChildren' = <<gridGroup>> \o rest
     /\ elem' = [elem EXCEPT ![gridGroup] = GridGroup(size)]

(***************************************************************************)
(* GridDrawingApp: pure helpers.                                           *)
(***************************************************************************)
\* snapToGrid with Math.floor in the place of Math.round
snapToGridFloor(px, py) ==
  Point((px \div settings.gridSize) * settings.gridSize,
        (py \div settings.gridSize) * settings.gridSize)

\* snapToGrid taking the grid line after the cell of the point
snapToGridNext(px, py) ==
  Point((px \div settings.gridSize + 1) * settings.gridSize,
        (py \div settings.gridSize + 1) * settings.gridSize)

snapToGrid(px, py) ==
  Point(MathRound(px, settings.gridSize) * settings.gridSize,
        MathRound(py, settings.gridSize) * settings.gridSize)

\* startPath with the stroke colour fixed instead of read from settings
NewPathFixedColour ==
  [tag |-> "path",
   stroke |-> "#000000",
   strokeWidth |-> settings.lineThickness,
   dasharray |-> IF settings.isDashed
                 THEN <<settings.dashArray, settings.dashArray>> ELSE <<>>,
   d |-> <<>>]

\* the <path> element startPath creates: the style is read from settings
NewPath ==
  [tag |-> "path",
   stroke |-> settings.lineColor,
   strokeWidth |-> settings.lineThickness,
   dasharray |-> IF settings.isDashed
                 THEN <<settings.dashArray, settings.dashArray>> ELSE <<>>,
   d |-> <<>>]

\* continuePath without its test for a repeated point
IsNewPointNoTest(gridPoint, lastPoint) == TRUE

\* continuePath: the test that the snapped point is not the last one
IsNewPoint(gridPoint, lastPoint) ==
  gridPoint.x # lastPoint.x \/ gridPoint.y # lastPoint.y

\* continuePath: the test for a diagonal move
IsDiagonal(gridPoint, lastPoint) ==
  /\ Abs(gridPoint.x - lastPoint.x) > 0
  /\ Abs(gridPoint.y - lastPoint.y) > 0

\* continuePath with a pivot that changes from one diagonal move to the next
PivotAlternating(numPoints) == IF (numPoints \div 2) % 2 = 1 THEN "H" ELSE "V"

\* continuePath with the two branches of the parity test exchanged
PivotSwapped(numPoints) == IF numPoints % 2 = 0 THEN "V" ELSE "H"

\* continuePath: the pivot, by the parity of the number of points so far
Pivot(numPoints) == IF numPoints % 2 = 0 THEN "H" ELSE "V"

\* continuePath pushing the new grid point in the place of the intermediate one
intermediatePointRepeated(numPoints, lastPoint, gridPoint) ==
  Point(gridPoint.x, gridPoint.y)

\* continuePath: the intermediate point of a diagonal move
intermediatePoint(numPoints, lastPoint, gridPoint) ==
  IF Pivot(numPoints) = "H"
  THEN Point(gridPoint.x, lastPoint.y)
  ELSE Point(lastPoint.x, gridPoint.y)

\* generateSmoothPath: a path command
MoveTo(p) == [c |-> "M", p |-> p]
LineTo(p) == [c |-> "L", p |-> p]
\* a quadratic curve that ends at its control point
QuadToControl(ctl, p) == [c |-> "Q", ctl |-> ctl, p |-> ctl]
QuadTo(ctl, p) == [c |-> "Q", ctl |-> ctl, p |-> p]

\* the corner test with its second case left out
isHorizThenVertOnly(prev, current, next) ==
  prev.y = current.y /\ current.x = next.x

\* generateSmoothPath: the corner test at points[i], 1 < i < Len(points)
isHorizThenVert(prev, current, next) ==
  \/ (prev.y = current.y /\ current.x = next.x)
  \/ (prev.x = current.x /\ current.y = next.y)

\* the loop without the i++ that skips the end point of a curve
RECURSIVE SmoothFromNoSkip(_, _)
SmoothFromNoSkip(points, i) ==
  IF i > Len(points) THEN <<>>
  ELSE IF i < Len(points)
       THEN IF isHorizThenVert(points[i - 1], points[i], points[i + 1])
            THEN <<LineTo(points[i]), QuadTo(points[i], points[i + 1])>>
                 \o SmoothFromNoSkip(points, i + 1)
            ELSE <<LineTo(points[i])>> \o SmoothFromNoSkip(points, i + 1)
       ELSE <<LineTo(points[i])>>

\* generateSmoothPath: the loop from index i (1-based) on
RECURSIVE SmoothFrom(_, _)
SmoothFrom(points, i) ==
  IF i > Len(points) THEN <<>>
  ELSE IF i < Len(points)
       THEN IF isHorizThenVert(points[i - 1], points[i], points[i + 1])
            THEN <<LineTo(points[i]), QuadTo(points[i], points[i + 1])>>
                 \o SmoothFrom(points, i + 2)
            ELSE <<LineTo(points[i])>> \o SmoothFrom(points, i + 1)
       ELSE <<LineTo(points[i])>>

\* generateSmoothPath without its test for fewer than two points
generateSmoothPathNoTest(points) ==
  <<MoveTo(points[1])>> \o SmoothFrom(points, 2)

\* generateSmoothPath: the path data, as the sequence of its commands
\* (the empty sequence is the empty string)
generateSmoothPath(points) ==
  IF Len(points) < 2 THEN <<>>
  ELSE <<MoveTo(points[1])>> \o SmoothFrom(points, 2)

(***************************************************************************)
(* GridDrawingApp: the path builder.                                       *)
(***************************************************************************)
startPath(px, py) ==
  LET gridPoint == snapToGrid(px, py)
      path == FreshId
      children == Append(svgChildren, path)
  IN /\ currentPath' = path
     /\ pathPoints' = <<gridPoint>>
     /\ lastGridPoint' = gridPoint
     /\ svgChildren' = children
     /\ elem' = Collect([elem EXCEPT ![path] = NewPath], children, pathHistory, path)
     /\ jumps' = <<>>

\* continuePath that leaves lastGridPoint at the point before
continuePathStaleLast(px, py) ==
  IF currentPath = Null
  THEN UNCHANGED <<pathPoints, lastGridPoint, elem, jumps>>
  ELSE LET gridPoint == snapToGrid(px, py) IN
       IF IsNewPoint(gridPoint, lastGridPoint)
       THEN LET diagonal == IsDiagonal(gridPoint, lastGridPoint)
                numPoints == Len(pathPoints)
                points ==
                  (IF diagonal
                   THEN Append(pathPoints,
                               intermediatePoint(numPoints, lastGridPoint, gridPoint))
                   ELSE pathPoints) \o <<gridPoint>>
            IN /\ pathPoints' = points
               /\ elem' = [elem EXCEPT ![currentPath].d = generateSmoothPath(points)]
               /\ jumps' = Append(jumps, IF BothAxesDiffer(lastGridPoint, gridPoint)
                                          THEN "D" ELSE "S")
               /\ UNCHANGED lastGridPoint
       ELSE UNCHANGED <<pathPoints, lastGridPoint, elem, jumps>>

continuePath(px, py) ==
  IF currentPath = Null
  THEN UNCHANGED <<pathPoints, lastGridPoint, elem, jumps>>
  ELSE LET gridPoint == snapToGrid(px, py) IN
       IF IsNewPoint(gridPoint, lastGridPoint)
       THEN LET diagonal == IsDiagonal(gridPoint, lastGridPoint)
                numPoints == Len(pathPoints)
                points ==
                  (IF diagonal
                   THEN Append(pathPoints,
                               intermediatePoint(numPoints, lastGridPoint, gridPoint))
                   ELSE pathPoints) \o <<gridPoint>>
            IN /\ pathPoints' = points
               /\ lastGridPoint' = gridPoint
               /\ elem' = [elem EXCEPT ![currentPath].d = generateSmoothPath(points)]
               /\ jumps' = Append(jumps, IF BothAxesDiffer(lastGridPoint, gridPoint)
                                          THEN "D" ELSE "S")
       ELSE UNCHANGED <<pathPoints, lastGridPoint, elem, jumps>>

\* endPath that pushes the path and forgets to empty the point sequence
endPathKeepsPoints ==
  /\ pathHistory' = IF currentPath # Null
                    THEN Append(pathHistory, currentPath) ELSE pathHistory
  /\ currentPath' = Null
  /\ UNCHANGED <<pathPoints, lastGridPoint>>
  /\ jumps' = <<>>

\* endPath without its test that there is a path to push
endPathPushesNull ==
  /\ pathHistory' = Append(pathHistory, currentPath)
  /\ currentPath' = Null
  /\ pathPoints' = <<>>
  /\ lastGridPoint' = NoPoint
  /\ jumps' = <<>>

endPath ==
  /\ pathHistory' = IF currentPath # Null
                    THEN Append(pathHistory, currentPath) ELSE pathHistory
  /\ currentPath' = Null
  /\ pathPoints' = <<>>
  /\ lastGridPoint' = NoPoint
  /\ jumps' = <<>>

(***************************************************************************)
(* GridDrawingApp: the event handlers.                                     *)
(***************************************************************************)
\* handleMouseDown without the test of the drawing mode
handleMouseDownAnyMode(px, py) ==
  /\ isDrawing' = TRUE
  /\ startPath(px, py)
  /\ UNCHANGED <<currentType, settings, pathHistory>>

handleMouseDown(px, py) ==
  /\ IF currentType = "line"
     THEN /\ isDrawing' = TRUE
          /\ startPath(px, py)
          /\ UNCHANGED <<currentType, settings, pathHistory>>
     ELSE UNCHANGED <<currentType, settings, elem, currentPath, pathPoints,
                      lastGridPoint, pathHistory, isDrawing, jumps>>

handleMouseMove(px, py) ==
  /\ IF ~isDrawing
     THEN UNCHANGED <<pathPoints, lastGridPoint, elem, jumps>>
     ELSE continuePath(px, py)
  /\ UNCHANGED <<currentType, settings, svgChildren, currentPath, pathHistory,
                 isDrawing>>

\* handleMouseUp that leaves isDrawing as it is
handleMouseUpKeepsDrawing ==
  /\ endPath
  /\ UNCHANGED <<currentType, settings, elem, isDrawing>>

handleMouseUp ==
  /\ isDrawing' = FALSE
  /\ endPath
  /\ UNCHANGED <<currentType, settings, elem>>

\* handleMouseLeave that drops the path in progress instead of pushing it
handleMouseLeaveDiscards ==
  /\ IF isDrawing
     THEN /\ isDrawing' = FALSE
          /\ currentPath' = Null
          /\ pathPoints' = <<>>
          /\ lastGridPoint' = NoPoint
          /\ jumps' = <<>>
          /\ UNCHANGED pathHistory
     ELSE UNCHANGED <<isDrawing, pathHistory, currentPath, pathPoints,
                      lastGridPoint, jumps>>
  /\ UNCHANGED <<currentType, settings, elem>>

handleMouseLeave ==
  /\ IF isDrawing
     THEN /\ isDrawing' = FALSE
          /\ endPath
     ELSE UNCHANGED <<isDrawing, pathHistory, currentPath, pathPoints,
                      lastGridPoint, jumps>>
  /\ UNCHANGED <<currentType, settings, elem>>

\* undoLastPath taking the oldest entry in the place of the newest
undoLastPathOldest ==
  /\ IF currentType # "line"
     THEN UNCHANGED <<pathHistory, elem>>
     ELSE IF Len(pathHistory) = 0
     THEN UNCHANGED <<pathHistory, svgChildren, elem>>
     ELSE LET lastPath == pathHistory[1]
              history == SubSeq(pathHistory, 2, Len(pathHistory))
              children == RemoveChild(svgChildren, lastPath)
          IN /\ pathHistory' = history
             /\ svgChildren' = children
             /\ elem' = Collect(elem, children, history, currentPath)
  /\ UNCHANGED <<currentType, settings, currentPath, pathPoints, lastGridPoint,
                 isDrawing, jumps>>

\* removeChild throws NotFoundError when lastPath is not a child of the
\* surface: the pop has happened by then, and the surface is as it was
undoLastPath ==
  /\ IF currentType # "line"
     THEN UNCHANGED <<pathHistory, elem>>
     ELSE IF Len(pathHistory) = 0
     THEN UNCHANGED <<pathHistory, svgChildren, elem>>
     ELSE LET lastPath == pathHistory[Len(pathHistory)]
              history == SubSeq(pathHistory, 1, Len(pathHistory) - 1)
              children == RemoveChild(svgChildren, lastPath)
          IN /\ pathHistory' = history
             /\ svgChildren' = children
             /\ elem' = Collect(elem, children, history, currentPath)
  /\ UNCHANGED <<currentType, settings, currentPath, pathPoints, lastGridPoint,
                 isDrawing, jumps>>

\* clearAllPaths: the children of the surface once every <path> is removed
PathsRemoved ==
  LET notPath(i) == elem[i].tag # "path" IN SelectSeq(svgChildren, notPath)

clearAllPaths ==
  /\ pathHistory' = <<>>
  /\ elem' = Collect(elem, PathsRemoved, <<>>, currentPath)
  /\ UNCHANGED <<currentType, settings, currentPath, pathPoints, lastGridPoint,
                 isDrawing, jumps>>

\* getPathElements: the <path> elements of the surface, in document order
getPathElements ==
  LET isPath(i) == elem[i].tag = "path" IN SelectSeq(svgChildren, isPath)

\* getPathsAsSvg: the descriptor of one path element; an attribute that was
\* never set reads as null, here the empty sequence
pathData(path) ==
  [d |-> elem[path].d,
   stroke |-> elem[path].stroke,
   strokeWidth |-> elem[path].strokeWidth,
   strokeDasharray |-> IF elem[path].dasharray = <<>>
                       THEN <<"none">> ELSE elem[path].dasharray]

getPathsAsSvg ==
  [i \in 1..Len(getPathElements) |-> pathData(getPathElements[i])]

displayPathsOutput ==
  /\ pathOutput' = [display |-> IF Len(getPathsAsSvg) > 0 THEN "block" ELSE "none",
                    textContent |-> getPathsAsSvg]
  /\ UNCHANGED <<currentType, settings, svgChildren, elem, currentPath,
                 pathPoints, lastGridPoint, pathHistory, isDrawing, jumps,
                 rectangleD, rectElem, call, pointerDown, packetManager>>

updateLineColor(value) ==
  /\ settings' = [settings EXCEPT !.lineColor = value]
  /\ UNCHANGED <<currentType, svgChildren, elem, currentPath, pathPoints,
                 lastGridPoint, pathHistory, isDrawing, jumps>>

updateLineThickness(value) ==
  /\ settings' = [settings EXCEPT !.lineThickness = value]
  /\ UNCHANGED <<currentType, svgChildren, elem, currentPath, pathPoints,
                 lastGridPoint, pathHistory, isDrawing, jumps>>

updateGridSize(value) ==
  /\ settings' = [settings EXCEPT !.gridSize = value]
  /\ drawGrid(value)
  /\ UNCHANGED <<currentType, currentPath, pathPoints, lastGridPoint,
                 pathHistory, isDrawing, jumps>>

updateDashedLine(checked) ==
  /\ settings' = [settings EXCEPT !.isDashed = checked]
  /\ UNCHANGED <<currentType, svgChildren, elem, currentPath, pathPoints,
                 lastGridPoint, pathHistory, isDrawing, jumps>>

updateDashArray(value) ==
  /\ settings' = [settings EXCEPT !.dashArray = value]
  /\ UNCHANGED <<currentType, svgChildren, elem, currentPath, pathPoints,
                 lastGridPoint, pathHistory, isDrawing, jumps>>

(***************************************************************************)
(* RectangleDrawer.  Its listeners run after those of GridDrawingApp: at an *)
(* event where it acts on the children of the surface, its action is the   *)
(* one that gives svgChildren its new value.                               *)
(***************************************************************************)
\* the label update_text gives a rectangle that has none: "Double click to
\* edit", a text being the sequence of its characters
DefaultText ==
  <<"D", "o", "u", "b", "l", "e", " ", "c", "l", "i", "c", "k", " ", "t", "o", " ",
    "e", "d", "i", "t">>

\* update_text with the two bounds of the font size exchanged
fontSizeSwapped(width, height, text) ==
  IF Len(text) = 0 THEN [num |-> 12, den |-> 1]
  ELSE [num |-> Max({Min({20 * width, 7 * height * Len(text)}), 168 * Len(text)}),
        den |-> 14 * Len(text)]

\* update_text: the font size of the label,
\* Math.min(Math.max(width / (text.length * 0.7), 12), height / 2), as the
\* fraction num / den; width / (text.length * 0.7) is 20 * width / den, 12 is
\* 168 * text.length / den and height / 2 is 7 * height * text.length / den
\* for den = 14 * text.length.  For the empty text the quotient is Infinity
\* and the font size is height / 2
fontSize(width, height, text) ==
  IF Len(text) = 0 THEN [num |-> height, den |-> 2]
  ELSE [num |-> Min({Max({20 * width, 168 * Len(text)}), 7 * height * Len(text)}),
        den |-> 14 * Len(text)]

getGridSnappedCoords(px, py) ==
  Point(MathRound(px, settings.gridSize) * settings.gridSize,
        MathRound(py, settings.gridSize) * settings.gridSize)

\* the <rect> element startDrawing creates at a snapped point
NewRect(point) ==
  [tag |-> "rect", x |-> point.x, y |-> point.y, width |-> 0, height |-> 0,
   selected |-> FALSE]

\* the <text> element update_text creates for a rectangle
NewText(rectangle, text) ==
  [tag |-> "text", textContent |-> text,
   fontSize |-> fontSize(rectElem[rectangle].width, rectElem[rectangle].height, text)]

\* classList.remove('selected-rect') on the selected rectangle, if any
Deselected(e) ==
  IF rectangleD.selectedRect = Null THEN e
  ELSE [e EXCEPT ![rectangleD.selectedRect].selected = FALSE]

\* e.target.closest('rect') for a pointer at the raw point: the top-most
\* rectangle of the surface that covers the point, or null where no
\* rectangle does or a label or a path drawn over it takes the event
IsOver(r, px, py) ==
  /\ rectElem[r].tag = "rect"
  /\ rectElem[r].x <= px /\ px <= rectElem[r].x + rectElem[r].width
  /\ rectElem[r].y <= py /\ py <= rectElem[r].y + rectElem[r].height

closestRect(px, py) ==
  LET over == {i \in 1..Len(svgChildren) : IsOver(svgChildren[i], px, py)}
      top == Max(over)
      above == {i \in (top + 1)..Len(svgChildren) :
                  \/ rectElem[svgChildren[i]].tag = "text"
                  \/ elem[svgChildren[i]].tag = "path"}
  IN IF over = {} THEN {Null}
     ELSE {svgChildren[top]} \cup (IF above = {} THEN {} ELSE {Null})

\* selectRectangle without the removal of the marking of the rectangle
\* selected before
selectRectangleKeepsMark(rect) ==
  /\ rectangleD' = [rectangleD EXCEPT !.selectedRect = rect, !.selectedRectTXT = rect]
  /\ rectElem' = CollectRects([rectElem EXCEPT ![rect].selected = TRUE],
                              svgChildren, rectangleD')
  /\ UNCHANGED svgChildren

selectRectangle(rect) ==
  /\ rectangleD' = [rectangleD EXCEPT !.selectedRect = rect, !.selectedRectTXT = rect]
  /\ rectElem' = CollectRects([Deselected(rectElem) EXCEPT ![rect].selected = TRUE],
                              svgChildren, rectangleD')
  /\ UNCHANGED svgChildren

startDrawing(px, py) ==
  LET point == getGridSnappedCoords(px, py)
      rect == FreshId
      children == Append(svgChildren, rect)
  IN /\ rectangleD' = [rectangleD EXCEPT !.selectedRect = Null,
                                         !.isDrawing = TRUE,
                                         !.currentRect = rect,
                                         !.dragStart = point]
     /\ svgChildren' = children
     /\ rectElem' = CollectRects([Deselected(rectElem) EXCEPT ![rect] = NewRect(point)],
                                 children, rectangleD')

RectangleDrawer_handleMouseDown(px, py, clickedRect) ==
  IF currentType = "line"
  THEN UNCHANGED <<rectangleD, rectElem>>
  ELSE IF clickedRect # Null /\ clickedRect # rectangleD.currentRect
       THEN selectRectangle(clickedRect)
       ELSE startDrawing(px, py)

drawRectangle(px, py) ==
  /\ IF ~rectangleD.isDrawing
     THEN UNCHANGED rectElem
     ELSE LET point == getGridSnappedCoords(px, py)
              startX == rectElem[rectangleD.currentRect].x
              startY == rectElem[rectangleD.currentRect].y
          IN rectElem' = [rectElem EXCEPT
               ![rectangleD.currentRect].x = IF point.x < startX THEN point.x ELSE startX,
               ![rectangleD.currentRect].y = IF point.y < startY THEN point.y ELSE startY,
               ![rectangleD.currentRect].width = Abs(point.x - startX),
               ![rectangleD.currentRect].height = Abs(point.y - startY)]
  /\ UNCHANGED rectangleD

\* update_text: the label the rectangle had, if any, leaves the surface and
\* text_rects, and a new label is appended to both
update_text(rectangle, text, rd) ==
  LET isOld(pair) == pair[1] = rectangle
      isOther(pair) == pair[1] # rectangle
      rectInfo == SelectSeq(rd.text_rects, isOld)
      kept == SelectSeq(rd.text_rects, isOther)
      children == IF Len(rectInfo) > 0
                  THEN RemoveChild(svgChildren, rectInfo[1][2]) ELSE svgChildren
      textSvg == FreshId
      labelled == [rd EXCEPT !.text_rects = Append(kept, <<rectangle, textSvg>>)]
  IN /\ rectangleD' = labelled
     /\ svgChildren' = Append(children, textSvg)
     /\ rectElem' = CollectRects([rectElem EXCEPT ![textSvg] = NewText(rectangle, text)],
                                 Append(children, textSvg), labelled)

\* stopDrawing that keeps a rectangle with one side of length zero
stopDrawingEitherSide ==
  IF ~rectangleD.isDrawing
  THEN UNCHANGED <<rectangleD, rectElem, svgChildren>>
  ELSE LET rect == rectangleD.currentRect
           stopped == [rectangleD EXCEPT !.isDrawing = FALSE, !.currentRect = Null,
                                         !.dragStart = NoPoint]
       IN IF rectElem[rect].width > 0 \/ rectElem[rect].height > 0
          THEN update_text(rect, DefaultText,
                           [stopped EXCEPT !.undoStack = Append(@, rect)])
          ELSE /\ rectangleD' = stopped
               /\ rectElem' = CollectRects(rectElem, svgChildren, stopped)
               /\ UNCHANGED svgChildren

stopDrawing ==
  IF ~rectangleD.isDrawing
  THEN UNCHANGED <<rectangleD, rectElem, svgChildren>>
  ELSE LET rect == rectangleD.currentRect
           stopped == [rectangleD EXCEPT !.isDrawing = FALSE, !.currentRect = Null,
                                         !.dragStart = NoPoint]
       IN IF rectElem[rect].width > 0 /\ rectElem[rect].height > 0
          THEN update_text(rect, DefaultText,
                           [stopped EXCEPT !.undoStack = Append(@, rect)])
          ELSE /\ rectangleD' = stopped
               /\ rectElem' = CollectRects(rectElem, svgChildren, stopped)
               /\ UNCHANGED svgChildren

\* undoLastOperation that pops the undo stack in mode "line" too
undoLastOperationAnyMode ==
  IF Len(rectangleD.undoStack) = 0
  THEN IF currentType = "line"
       THEN UNCHANGED <<rectangleD, rectElem>>
       ELSE UNCHANGED <<rectangleD, rectElem, svgChildren>>
  ELSE LET stack == rectangleD.undoStack
           lastRect == stack[Len(stack)]
           popped == [rectangleD EXCEPT !.undoStack = SubSeq(stack, 1, Len(stack) - 1)]
       IN IF currentType = "line"
          THEN /\ rectangleD' = popped
               /\ rectElem' = CollectRects(rectElem, svgChildren, popped)
          ELSE IF lastRect \in Range(svgChildren)
          THEN LET children == RemoveChild(svgChildren, lastRect)
                   rd == [popped EXCEPT !.selectedRect = Null]
               IN /\ svgChildren' = children
                  /\ rectangleD' = rd
                  /\ rectElem' = CollectRects(Deselected(rectElem), children, rd)
          ELSE /\ rectangleD' = popped
               /\ rectElem' = CollectRects(rectElem, svgChildren, popped)
               /\ UNCHANGED svgChildren

\* removeChild throws NotFoundError when lastRect is not a child of the
\* surface: the pop has happened by then, and the selection is as it was
undoLastOperation ==
  IF currentType = "line"
  THEN UNCHANGED <<rectangleD, rectElem>>
  ELSE IF Len(rectangleD.undoStack) = 0
  THEN UNCHANGED <<rectangleD, rectElem, svgChildren>>
  ELSE LET stack == rectangleD.undoStack
           lastRect == stack[Len(stack)]
           popped == [rectangleD EXCEPT !.undoStack = SubSeq(stack, 1, Len(stack) - 1)]
       IN IF lastRect \in Range(svgChildren)
          THEN LET children == RemoveChild(svgChildren, lastRect)
                   rd == [popped EXCEPT !.selectedRect = Null]
               IN /\ svgChildren' = children
                  /\ rectangleD' = rd
                  /\ rectElem' = CollectRects(Deselected(rectElem), children, rd)
          ELSE /\ rectangleD' = popped
               /\ rectElem' = CollectRects(rectElem, svgChildren, popped)
               /\ UNCHANGED svgChildren

\* clearAllRects: every <rect> of the document is removed from its parent;
\* it runs on the children clearAllPaths left
clearAllRects ==
  LET notRect(i) == rectElem[i].tag # "rect"
      children == SelectSeq(PathsRemoved, notRect)
  IN /\ svgChildren' = children
     /\ rectElem' = CollectRects(rectElem, children, rectangleD)
     /\ UNCHANGED rectangleD

(***************************************************************************)
(* The dialog of the descriptions: RectangleDrawer.dialogBox and DialogBox. *)
(***************************************************************************)
\* the characters String.prototype.trim removes from both ends
Whitespace == {" ", "\t", "\n"}

\* trim without the removal of the spaces
TrimNothing(str) == str

\* String.prototype.trim
RECURSIVE Trim(_)
Trim(str) ==
  IF Len(str) = 0 THEN str
  ELSE IF str[1] \in Whitespace THEN Trim(Tail(str))
  ELSE IF str[Len(str)] \in Whitespace THEN Trim(SubSeq(str, 1, Len(str) - 1))
  ELSE str

\* the [name, description] stored for a rectangle, or <<>> where none is
StoredFor(rect) ==
  LET isFor(entry) == entry[1] = rect
      rectInfo == SelectSeq(rectangleD.descriptions, isFor)
  IN IF Len(rectInfo) > 0 THEN rectInfo[1][2] ELSE <<>>

\* dialogBox: a double click whose target has clickedRect as its closest
\* rectangle (null for a target that is not a rectangle) opens the viewer
\* where a name and a description are stored for it and the editor where
\* they are not; on a target without a rectangle nothing opens
dialogBox(clickedRect) ==
  LET stored == StoredFor(clickedRect)
      named == stored # <<>> /\ stored[1] # <<>> /\ stored[2] # <<>>
  IN /\ rectangleD' = [rectangleD EXCEPT
          !.selectedRectTXT = clickedRect,
          !.view = IF clickedRect = Null THEN @
                   ELSE IF named THEN "viewer" ELSE "editor",
          !.edited = IF clickedRect = Null THEN @ ELSE clickedRect]
     /\ rectElem' = CollectRects(rectElem, svgChildren, rectangleD')
     /\ UNCHANGED svgChildren

\* close_editor, on the close and the cancel button
close_editor ==
  /\ rectangleD' = [rectangleD EXCEPT !.view = "closed", !.edited = Null]
  /\ rectElem' = CollectRects(rectElem, svgChildren, rectangleD')
  /\ UNCHANGED svgChildren

\* open_editor, on the edit button
open_editor ==
  /\ rectangleD' = [rectangleD EXCEPT !.view = "editor"]
  /\ UNCHANGED <<rectElem, svgChildren>>

\* submit_button: the descriptions with [name, description] stored for the
\* selected rectangle, in the place of what was stored for it
Described(name, description) ==
  LET descriptions == rectangleD.descriptions
      updated == \E i \in 1..Len(descriptions) : descriptions[i][1] = rectangleD.selectedRect
  IN IF updated
     THEN [i \in 1..Len(descriptions) |->
             IF descriptions[i][1] = rectangleD.selectedRect
             THEN <<descriptions[i][1], <<name, description>>>> ELSE descriptions[i]]
     ELSE Append(descriptions, <<rectangleD.selectedRect, <<name, description>>>>)

\* submit_button: with a blank name or a blank description it alerts and
\* returns.  Else it stores the pair for selectedRect and relabels
\* selectedRectTXT; with selectedRectTXT null update_text throws a TypeError
\* on rectangle.getAttribute, after the pair was stored and before the
\* viewer opens
submit_button(name, description) ==
  IF Trim(name) = <<>> \/ Trim(description) = <<>>
  THEN UNCHANGED <<rectangleD, rectElem, svgChildren>>
  ELSE LET rd == [rectangleD EXCEPT !.descriptions = Described(name, description)]
       IN IF rectangleD.selectedRectTXT = Null
          THEN /\ rectangleD' = rd
               /\ rectElem' = CollectRects(rectElem, svgChildren, rd)
               /\ UNCHANGED svgChildren
          ELSE update_text(rectangleD.selectedRectTXT, name, [rd EXCEPT !.view = "viewer"])

(***************************************************************************)
(* PacketAnimationManager.                                                 *)
(***************************************************************************)
\* the object its constructor leaves: no path, no packets, stopped; the
\* dialog and the buttons as the document gives them
NewPacketManager ==
  [path |-> Null, packets |-> <<>>, animationState |-> "stopped", dialog |-> "none",
   startDisabled |-> FALSE, pauseDisabled |-> FALSE, restartDisabled |-> FALSE]

\* the value of the size field of the form
PacketSize == 10

\* openDialog: a double click on a path that endPath gave the listener
openDialog(path) ==
  /\ packetManager' = [packetManager EXCEPT !.path = path, !.dialog = "block"]
  /\ UNCHANGED <<svgChildren, rectElem>>

closeDialog ==
  /\ packetManager' = [packetManager EXCEPT !.dialog = "none"]
  /\ UNCHANGED <<svgChildren, rectElem>>

\* path.getPointAtLength(0) and path.getPointAtLength(pathLength): the
\* point the path data begins at and the one it ends at
PathPoint(direction) ==
  LET d == elem[packetManager.path].d
  IN IF direction = "start" THEN d[1].p ELSE d[Len(d)].p

\* the <rect> element addPacket creates
NewPacketRect(direction) ==
  [tag |-> "rect", x |-> PathPoint(direction).x - PacketSize \div 2,
   y |-> PathPoint(direction).y - PacketSize \div 2,
   width |-> PacketSize, height |-> PacketSize, selected |-> FALSE,
   visibility |-> "hidden"]

\* addPacket: an empty or a duplicate id is refused with an alert; without
\* a path a TypeError ends the handler before the packet is added
addPacket(value, direction) ==
  LET id == Trim(value)
      duplicate == \E i \in 1..Len(packetManager.packets) : packetManager.packets[i].id = id
      rect == FreshId
      packet == [id |-> id, direction |-> direction, element |-> rect, state |-> "stopped"]
  IN IF id = <<>> \/ duplicate \/ packetManager.path = Null
     THEN UNCHANGED <<packetManager, svgChildren, rectElem>>
     ELSE /\ svgChildren' = Append(svgChildren, rect)
          /\ rectElem' = [rectElem EXCEPT ![rect] = NewPacketRect(direction)]
          /\ packetManager' = [packetManager EXCEPT
                !.packets = Append(@, packet),
                !.startDisabled = FALSE,
                !.dialog = "none"]

\* deletePacket: removeChild throws NotFoundError when the element is not a
\* child of the surface, before the packet leaves the list
deletePacket(index) ==
  LET packet == packetManager.packets[index]
      packets == SubSeq(packetManager.packets, 1, index - 1)
                   \o SubSeq(packetManager.packets, index + 1, Len(packetManager.packets))
      emptied == Len(packets) = 0
  IN IF packet.element \notin Range(svgChildren)
     THEN UNCHANGED <<packetManager, svgChildren, rectElem>>
     ELSE /\ svgChildren' = RemoveChild(svgChildren, packet.element)
          /\ packetManager' = [packetManager EXCEPT
                !.packets = packets,
                !.startDisabled = IF emptied THEN TRUE ELSE @,
                !.pauseDisabled = IF emptied THEN TRUE ELSE @,
                !.restartDisabled = IF emptied THEN TRUE ELSE @,
                !.animationState = IF emptied THEN "stopped" ELSE @]
          /\ rectElem' = [rectElem EXCEPT ![packet.element] = NoElem]

\* the packets with every packet whose state is one of the states set
\* running
Played(packets, states) ==
  [i \in 1..Len(packets) |->
     IF packets[i].state \in states THEN [packets[i] EXCEPT !.state = "running"] ELSE packets[i]]

\* the begin callback of the animations the step plays: the elements of the
\* packets whose state is one of the states are made visible
Shown(e, packets, states) ==
  [i \in ElemIds |->
     IF e[i] # NoElem /\ \E k \in 1..Len(packets) : packets[k].element = i /\ packets[k].state \in states
     THEN [e[i] EXCEPT !.visibility = "visible"] ELSE e[i]]

startAnimation ==
  IF packetManager.animationState = "running"
  THEN UNCHANGED <<packetManager, svgChildren, rectElem>>
  ELSE LET notRunning == {"stopped", "paused"}
           packets == Played(packetManager.packets, notRunning)
       IN /\ packetManager' = [packetManager EXCEPT
                !.packets = packets, !.animationState = "running",
                !.startDisabled = TRUE, !.pauseDisabled = FALSE, !.restartDisabled = FALSE]
          /\ rectElem' = Shown(rectElem, packetManager.packets, notRunning)
          /\ UNCHANGED svgChildren

pauseAnimation ==
  IF packetManager.animationState # "running"
  THEN UNCHANGED <<packetManager, svgChildren, rectElem>>
  ELSE /\ packetManager' = [packetManager EXCEPT
             !.packets = [i \in 1..Len(@) |->
                            IF @[i].state = "running"
                            THEN [@[i] EXCEPT !.state = "paused"] ELSE @[i]],
             !.animationState = "paused",
             !.startDisabled = FALSE, !.pauseDisabled = TRUE]
       /\ UNCHANGED <<svgChildren, rectElem>>

restartAnimation ==
  LET every == {"stopped", "paused", "running"}
  IN /\ packetManager' = [packetManager EXCEPT
           !.packets = Played(@, every), !.animationState = "running",
           !.startDisabled = TRUE, !.pauseDisabled = FALSE]
     /\ rectElem' = Shown(rectElem, packetManager.packets, every)
     /\ UNCHANGED svgChildren

\* the complete callback of the animation of a packet, and
\* checkAllAnimationsComplete
complete(index) ==
  LET packets == [packetManager.packets EXCEPT ![index].state = "stopped"]
      allStopped == \A i \in 1..Len(packets) : packets[i].state = "stopped"
      element == packets[index].element
  IN /\ packetManager' = [packetManager EXCEPT
           !.packets = packets,
           !.animationState = IF allStopped THEN "stopped" ELSE @,
           !.startDisabled = IF allStopped THEN FALSE ELSE @,
           !.pauseDisabled = IF allStopped THEN TRUE ELSE @,
           !.restartDisabled = IF allStopped THEN FALSE ELSE @]
     /\ rectElem' = IF rectElem[element] = NoElem THEN rectElem
                    ELSE [rectElem EXCEPT ![element].visibility = "hidden"]
     /\ UNCHANGED svgChildren

(***************************************************************************)
(* ToggleManager.                                                          *)
(***************************************************************************)
handleToggle(type) ==
  /\ currentType' = type
  /\ UNCHANGED <<settings, svgChildren, elem, currentPath, pathPoints,
                 lastGridPoint, pathHistory, isDrawing, jumps>>

(***************************************************************************)
(* Direct calls of the pure methods.                                       *)
(***************************************************************************)
\* no call has been made
NoCall == [fn |-> "none"]

callGenerateSmoothPath(points) ==
  /\ call' = [fn |-> "generateSmoothPath", args |-> points,
              result |-> generateSmoothPath(points)]
  /\ UNCHANGED <<currentType, settings, svgChildren, elem, currentPath,
                 pathPoints, lastGridPoint, pathHistory, isDrawing, jumps,
                 rectangleD, rectElem, pathOutput, pointerDown, packetManager>>

callSnapToGrid(px, py) ==
  /\ call' = [fn |-> "snapToGrid", args |-> Point(px, py),
              result |-> snapToGrid(px, py)]
  /\ UNCHANGED <<currentType, settings, svgChildren, elem, currentPath,
                 pathPoints, lastGridPoint, pathHistory, isDrawing, jumps,
                 rectangleD, rectElem, pathOutput, pointerDown, packetManager>>

\* snapToGrid called on the point the last call of snapToGrid returned
callSnapToGridAgain ==
  /\ call.fn = "snapToGrid"
  /\ callSnapToGrid(call.result.x, call.result.y)

\* update_text called for a rectangle of the given width and height: the font
\* size it gives the label
callUpdateText(width, height, text) ==
  /\ call' = [fn |-> "update_text",
              args |-> [width |-> width, height |-> height, text |-> text],
              result |-> fontSize(width, height, text)]
  /\ UNCHANGED <<currentType, settings, svgChildren, elem, currentPath,
                 pathPoints, lastGridPoint, pathHistory, isDrawing, jumps,
                 rectangleD, rectElem, pathOutput, pointerDown, packetManager>>

\* drawGrid with loops that stop before the far edge of the canvas
InRangeStrict(at, limit) == at < limit

\* drawGrid: the test of its two loops, x <= this.width and y <= this.height
InRange(at, limit) == at <= limit

\* createSvgLine: the end points of a line of the grid
createSvgLine(x1, y1, x2, y2) == [x1 |-> x1, y1 |-> y1, x2 |-> x2, y2 |-> y2]

\* a call of drawGrid on a canvas of the given extent, entered from
\* updateGridSize with the value of the control: the grid group is empty and
\* the first loop is at x = 0.  The program runs one handler at a time, so
\* a call begins only when no call of drawGrid is under way
callDrawGrid(width, height, value) ==
  /\ call.fn = "drawGrid" => call.pc = "done"
  /\ settings' = [settings EXCEPT !.gridSize = value]
  /\ call' = [fn |-> "drawGrid", args |-> [width |-> width, height |-> height],
              pc |-> "vertical", at |-> 0, result |-> <<>>]
  /\ UNCHANGED <<currentType, svgChildren, elem, currentPath, pathPoints,
                 lastGridPoint, pathHistory, isDrawing, jumps, rectangleD,
                 rectElem, pathOutput, pointerDown, packetManager>>

\* one evaluation of a loop test of drawGrid and what follows it: the body
\* and the increment, or the exit to the next loop or to the end
drawGridStep ==
  /\ call.fn = "drawGrid"
  /\ call.pc # "done"
  /\ LET limit == IF call.pc = "vertical" THEN call.args.width ELSE call.args.height
         line == IF call.pc = "vertical"
                 THEN createSvgLine(call.at, 0, call.at, call.args.height)
                 ELSE createSvgLine(0, call.at, call.args.width, call.at)
     IN call' = IF InRange(call.at, limit)
                THEN [call EXCEPT !.result = Append(@, line),
                                  !.at = @ + settings.gridSize]
                ELSE [call EXCEPT !.pc = IF @ = "vertical" THEN "horizontal" ELSE "done",
                                  !.at = 0]
  /\ UNCHANGED <<currentType, settings, svgChildren, elem, currentPath,
                 pathPoints, lastGridPoint, pathHistory, isDrawing, jumps,
                 rectangleD, rectElem, pathOutput, pointerDown, packetManager>>

(***************************************************************************)
(* Specifications.                                                         *)
(***************************************************************************)
\* the state after the constructors ran: the settings hold the controls'
\* values, the grid is drawn, the mode is 'box', no rectangle exists
InitOver(gridSizes, colors, thicknesses, dashFlags, dashArrays) ==
  /\ currentType = "box"
  /\ settings \in [gridSize : gridSizes, lineColor : colors,
                   lineThickness : thicknesses, isDashed : dashFlags,
                   dashArray : dashArrays]
  /\ svgChildren = <<1>>
  /\ elem = [i \in ElemIds |-> IF i = 1 THEN GridGroup(settings.gridSize) ELSE NoElem]
  /\ currentPath = Null
  /\ pathPoints = <<>>
  /\ lastGridPoint = NoPoint
  /\ pathHistory = <<>>
  /\ isDrawing = FALSE
  /\ jumps = <<>>
  /\ rectangleD = [isDrawing |-> FALSE, currentRect |-> Null, selectedRect |-> Null,
                   selectedRectTXT |-> Null, undoStack |-> <<>>, text_rects |-> <<>>,
                   descriptions |-> <<>>, view |-> "closed", edited |-> Null, dragStart |-> NoPoint]
  /\ rectElem = [i \in ElemIds |-> NoElem]
  /\ pathOutput = [display |-> "", textContent |-> <<>>]
  /\ call = NoCall
  /\ pointerDown = FALSE
  /\ packetManager = NewPacketManager

\* one event of the application, the pointer positions and the control values
\* being drawn from the given sets; a gesture stops growing at maxPoints
\* points, and a path or a rectangle is begun only where there is room for
\* its element; a mousedown that selects a rectangle begins none, and is
\* explored where selectRoom holds
MouseDown(xs, ys, room, rectRoom, selectRoom) ==
  \E px \in xs, py \in ys :
    \E clickedRect \in closestRect(px, py) :
      /\ IF currentType = "line" THEN room
         ELSE IF clickedRect # Null /\ clickedRect # rectangleD.currentRect
              THEN selectRoom ELSE rectRoom
      /\ handleMouseDown(px, py)
      /\ RectangleDrawer_handleMouseDown(px, py, clickedRect)

MouseMove(xs, ys, maxPoints) ==
  \E px \in xs, py \in ys :
    /\ Len(pathPoints) + 2 <= maxPoints
    /\ handleMouseMove(px, py)
    /\ drawRectangle(px, py)

MouseUp == handleMouseUp /\ stopDrawing

MouseLeave == handleMouseLeave /\ stopDrawing

\* the undo button and the clear button each carry a listener of both
\* components
UndoClick == undoLastPath /\ undoLastOperation

ClearClick == clearAllPaths /\ clearAllRects

NextOver(xs, ys, gridSizes, colors, thicknesses, dashFlags, dashArrays, maxPoints, room, rectRoom, selectRoom) ==
  \/ MouseDown(xs, ys, room, rectRoom, selectRoom) /\ UNCHANGED <<pathOutput, call, pointerDown, packetManager>>
  \/ MouseMove(xs, ys, maxPoints) /\ UNCHANGED <<pathOutput, call, pointerDown, packetManager>>
  \/ MouseUp /\ UNCHANGED <<pathOutput, call, pointerDown, packetManager>>
  \/ MouseLeave /\ UNCHANGED <<pathOutput, call, pointerDown, packetManager>>
  \/ UndoClick /\ UNCHANGED <<pathOutput, call, pointerDown, packetManager>>
  \/ ClearClick /\ UNCHANGED <<pathOutput, call, pointerDown, packetManager>>
  \/ /\ \E value \in colors : updateLineColor(value)
     /\ UNCHANGED <<rectangleD, rectElem, pathOutput, call, pointerDown, packetManager>>
  \/ /\ \E value \in thicknesses : updateLineThickness(value)
     /\ UNCHANGED <<rectangleD, rectElem, pathOutput, call, pointerDown, packetManager>>
  \/ /\ \E value \in gridSizes : updateGridSize(value)
     /\ UNCHANGED <<rectangleD, rectElem, pathOutput, call, pointerDown, packetManager>>
  \/ /\ \E checked \in dashFlags : updateDashedLine(checked)
     /\ UNCHANGED <<rectangleD, rectElem, pathOutput, call, pointerDown, packetManager>>
  \/ /\ \E value \in dashArrays : updateDashArray(value)
     /\ UNCHANGED <<rectangleD, rectElem, pathOutput, call, pointerDown, packetManager>>
  \/ /\ \E type \in DrawingTypes : handleToggle(type)
     /\ UNCHANGED <<rectangleD, rectElem, pathOutput, call, pointerDown, packetManager>>

\* the application: several paths on the surface, short gestures, no
\* gesture in mode 'box'
Init == InitOver(GridSizeOne, LineColors, LineThicknessOne, {FALSE}, DashArrayOne)
Next == NextOver(RawX, RawYOne, GridSizeOne, LineColors, LineThicknessOne, {FALSE}, DashArrayOne, MaxPoints, Cardinality(LiveElems) < MaxElems, FALSE, FALSE)
Spec == Init /\ [][Next]_vars

\* single gestures: long point sequences over a 2 x 2 patch of the grid, a
\* path being begun only on a surface that holds no other path
NoPathAlive == \A i \in ElemIds : elem[i].tag # "path"
InitGesture == InitOver(GridSizes, LineColorOne, LineThicknessOne, {FALSE}, DashArrayOne)
NextGesture == NextOver(RawX, RawY, GridSizes, LineColorOne, LineThicknessOne, {FALSE}, DashArrayOne, MaxPointsG, NoPathAlive, FALSE, FALSE)
SpecGesture == InitGesture /\ [][NextGesture]_vars

\* every style control, gestures between two grid points
InitStyle == InitOver(GridSizes, LineColors, LineThicknesses, BOOLEAN, DashArrays)
NextStyle == NextOver(RawXOne, RawYOne, GridSizes, LineColors, LineThicknesses, BOOLEAN, DashArrays, MaxPointsS, Cardinality(LiveElems) < MaxElemsS, FALSE, FALSE)
SpecStyle == InitStyle /\ [][NextStyle]_vars

\* the whole canvas: path gestures and rectangle gestures over a 2 x 2 patch
\* of the grid, a path being begun only on a surface that holds no other
\* path, and a rectangle only where there is room for it and its label
InitCanvas == InitOver(GridSizeOne, LineColorOne, LineThicknessOne, {FALSE}, DashArrayOne)
NextCanvas == NextOver(RawX, RawY, GridSizeOne, LineColorOne, LineThicknessOne, {FALSE}, DashArrayOne, MaxPointsC, NoPathAlive, Cardinality(LiveRectElems) + 2 <= MaxRectElemsC, FALSE)
SpecCanvas == InitCanvas /\ [][NextCanvas]_vars

\* the whole canvas with a grid size that changes: gestures between two raw
\* points, a rectangle being begun only while the program holds no other
InitLayers == InitOver(GridSizes, LineColorOne, LineThicknessOne, {FALSE}, DashArrayOne)
NoRectAlive == \A i \in ElemIds : rectElem[i].tag # "rect"
NextLayers == NextOver(RawX, RawYOne, GridSizes, LineColorOne, LineThicknessOne, {FALSE}, DashArrayOne, MaxPointsL, NoPathAlive, NoRectAlive, FALSE)
SpecLayers == InitLayers /\ [][NextLayers]_vars

\* rectangles only: drags over a patch of a grid of size 5 or 20, undo,
\* clear and the toggle; no path is begun and no rectangle is selected
InitBox == InitOver(GridSizesBox, LineColorOne, LineThicknessOne, {FALSE}, DashArrayOne)
NextBox == NextOver(RawBox, RawBox, GridSizesBox, LineColorOne, LineThicknessOne, {FALSE}, DashArrayOne, MaxPointsL, FALSE, Cardinality(LiveRectElems) + 2 <= MaxRectElemsB, FALSE)
SpecBox == InitBox /\ [][NextBox]_vars

\* selection: two rectangles side by side can be drawn, labelled and
\* clicked; every mousedown comes after the end of the drag before it, a
\* rectangle is begun only while no rectangle with a side of length zero is
\* left, and no path is begun
NoEmptyRectAlive == \A i \in ElemIds : rectElem[i].tag = "rect" => rectElem[i].width > 0 /\ rectElem[i].height > 0
NextSelect == NextOver(RawXWide, RawY, GridSizeOne, LineColorOne, LineThicknessOne, {FALSE}, DashArrayOne, MaxPointsL, FALSE, ~rectangleD.isDrawing /\ NoEmptyRectAlive /\ Cardinality(LiveRectElems) + 2 <= MaxRectElemsT, ~rectangleD.isDrawing)
SpecSelect == InitCanvas /\ [][NextSelect]_vars

\* update_text called for every rectangle whose sides are multiples of 5 up
\* to 5 * MaxCells, with a short label and with the default one
MaxCells == 20
Sides == {5 * k : k \in 1..MaxCells}
Labels == {<<"H", "i">>, DefaultText}
NextLabel == \E width \in Sides, height \in Sides, text \in Labels : callUpdateText(width, height, text)
SpecLabel == Init /\ [][NextLabel]_vars

\* both components over one surface: gestures in either mode, over the
\* empty surface and over a rectangle, a path being begun only while no
\* other is alive and a rectangle only while no other is in progress
NextRoute == NextOver(RawX, RawY, GridSizeOne, LineColorOne, LineThicknessOne, {FALSE}, DashArrayOne, MaxPointsL, NoPathAlive, ~rectangleD.isDrawing /\ NoEmptyRectAlive /\ Cardinality(LiveRectElems) + 2 <= MaxRectElemsR, ~rectangleD.isDrawing)
SpecRoute == InitCanvas /\ [][NextRoute]_vars

\* both components under the order of the events of one pointer: a
\* mousedown comes only after the mouseup or the mouseleave of the one
\* before it; the mode is toggled at any time, in mid-gesture too
NextOrdered ==
  \/ /\ ~pointerDown
     /\ MouseDown(RawX, RawY, NoPathAlive, NoEmptyRectAlive /\ Cardinality(LiveRectElems) + 2 <= MaxRectElemsO, TRUE)
     /\ pointerDown' = TRUE
     /\ UNCHANGED <<pathOutput, call, packetManager>>
  \/ MouseMove(RawX, RawY, MaxPointsL) /\ UNCHANGED <<pathOutput, call, pointerDown, packetManager>>
  \/ MouseUp /\ pointerDown' = FALSE /\ UNCHANGED <<pathOutput, call, packetManager>>
  \/ MouseLeave /\ pointerDown' = FALSE /\ UNCHANGED <<pathOutput, call, packetManager>>
  \/ UndoClick /\ UNCHANGED <<pathOutput, call, pointerDown, packetManager>>
  \/ ClearClick /\ UNCHANGED <<pathOutput, call, pointerDown, packetManager>>
  \/ /\ \E type \in DrawingTypes : handleToggle(type)
     /\ UNCHANGED <<rectangleD, rectElem, pathOutput, call, pointerDown, packetManager>>
SpecOrdered == InitCanvas /\ [][NextOrdered]_vars

\* the dialog of the descriptions over the gestures of SpecSelect: double
\* clicks, the buttons of the dialog where the dialog shows them, and submits
\* of blank and of filled fields.  The pointer is up at a double click and
\* at a click on a button, so no rectangle is in progress then; a submit
\* that relabels needs an id for the new label
Names == {<<>>, <<" ", " ">>, <<"A">>}
Descriptions == {<<>>, <<"\n">>, <<"d">>}
HasFreeId == \E i \in ElemIds : elem[i] = NoElem /\ rectElem[i] = NoElem
DialogFrame == UNCHANGED <<currentType, settings, elem, currentPath, pathPoints, lastGridPoint, pathHistory, isDrawing, jumps, pathOutput, call, pointerDown, packetManager>>
\* a double click follows two mousedowns on its target: in mode "box" they
\* have selected the rectangle of the target
AfterMouseDowns(clickedRect) == currentType # "line" /\ clickedRect # Null => rectangleD.selectedRect = clickedRect
DblClick(xs, ys) == \E px \in xs, py \in ys : \E clickedRect \in closestRect(px, py) : AfterMouseDowns(clickedRect) /\ dialogBox(clickedRect)
Submit == \E name \in Names, description \in Descriptions : submit_button(name, description)
NextDialog ==
  \/ NextOver(RawXWide, RawY, GridSizeOne, LineColorOne, LineThicknessOne, {FALSE}, DashArrayOne, MaxPointsL, FALSE, ~rectangleD.isDrawing /\ NoEmptyRectAlive /\ Cardinality(LiveRectElems) + 2 <= MaxRectElemsD, ~rectangleD.isDrawing)
  \/ ~rectangleD.isDrawing /\ DblClick(RawXWide, RawY) /\ DialogFrame
  \/ rectangleD.view = "editor" /\ ~rectangleD.isDrawing /\ HasFreeId /\ Submit /\ DialogFrame
  \/ rectangleD.view # "closed" /\ ~rectangleD.isDrawing /\ close_editor /\ DialogFrame
  \/ rectangleD.view = "viewer" /\ ~rectangleD.isDrawing /\ open_editor /\ DialogFrame
SpecDialog == InitCanvas /\ [][NextDialog]_vars

\* the packet animation manager over the paths of short gestures in mode
\* "line": a double click on a rendered path of the history opens the
\* dialog; a button is clicked only while it is not disabled; an animation
\* completes only while it plays
PacketIds == {<<" ">>, <<"a">>, <<"b">>}
Directions == {"start", "end"}
PacketFrame == UNCHANGED <<currentType, settings, elem, currentPath, pathPoints, lastGridPoint, pathHistory, isDrawing, jumps, rectangleD, pathOutput, call, pointerDown>>
PacketRoom == Len(packetManager.packets) < MaxPackets /\ HasFreeId
Clickable(path) == path \in Range(svgChildren) /\ Len(elem[path].d) >= 2
InitPackets ==
  /\ InitOver(GridSizeOne, LineColorOne, LineThicknessOne, {FALSE}, DashArrayOne)
NextPackets ==
  \/ NextOver(RawX, RawYOne, GridSizeOne, LineColorOne, LineThicknessOne, {FALSE}, DashArrayOne, MaxPoints, NoPathAlive, FALSE, FALSE)
  \/ (\E i \in 1..Len(pathHistory) : Clickable(pathHistory[i]) /\ openDialog(pathHistory[i])) /\ PacketFrame
  \/ closeDialog /\ PacketFrame
  \/ (\E value \in PacketIds, direction \in Directions : PacketRoom /\ packetManager.dialog = "block" /\ addPacket(value, direction)) /\ PacketFrame
  \/ (\E index \in 1..Len(packetManager.packets) : deletePacket(index)) /\ PacketFrame
  \/ ~packetManager.startDisabled /\ startAnimation /\ PacketFrame
  \/ ~packetManager.pauseDisabled /\ pauseAnimation /\ PacketFrame
  \/ ~packetManager.restartDisabled /\ restartAnimation /\ PacketFrame
  \/ (\E index \in 1..Len(packetManager.packets) : packetManager.packets[index].state = "running" /\ complete(index)) /\ PacketFrame
SpecPackets == InitPackets /\ [][NextPackets]_vars

\* the application with its export button
NextExport == Next \/ displayPathsOutput
SpecExport == Init /\ [][NextExport]_vars

\* generateSmoothPath called on every sequence of up to MaxLen points of a
\* 2 x 2 patch of the grid
MaxLen == 4
PatchPoints == {Point(px, py) : px \in {20, 40}, py \in {0, 20}}
PointSeqs == UNION {[1..n -> PatchPoints] : n \in 1..MaxLen}
NextRender == \E points \in PointSeqs : callGenerateSmoothPath(points)
SpecRender == Init /\ [][NextRender]_vars

\* snapToGrid called on every raw point of a square around the origin and on
\* the points it returned
MaxRaw == 15
RawCoords == (0 - MaxRaw)..MaxRaw
InitSnap == InitOver(GridSizes, LineColorOne, LineThicknessOne, {FALSE}, DashArrayOne)
NextSnap ==
  \/ \E px \in RawCoords, py \in RawCoords : callSnapToGrid(px, py)
  \/ callSnapToGridAgain
SpecSnap == InitSnap /\ [][NextSnap]_vars

\* drawGrid called for every grid size of the control on canvases some of
\* whose extents are multiples of the grid size; a loop that has begun goes
\* on until it ends
Widths == {40, 50, 60}
Heights == {30, 45, 60}
NextGrid ==
  \/ \E width \in Widths, height \in Heights, value \in GridSizes :
       callDrawGrid(width, height, value)
  \/ drawGridStep
SpecGrid == InitSnap /\ [][NextGrid]_vars /\ WF_vars(drawGridStep)

(***************************************************************************)
(* Path history and the surface.                                           *)
(***************************************************************************)
\* the path elements on the surface, bottom-most first
RenderedPaths ==
  LET isPath(i) == elem[i].tag = "path" IN SelectSeq(svgChildren, isPath)

\* the rendered paths other than the one in progress
FinishedOnSurface ==
  LET finished(i) == elem[i].tag = "path" /\ i # currentPath
  IN SelectSeq(svgChildren, finished)

\* C1: in every reachable state every entry of pathHistory is a path
\* element that is a child of the surface, so that undoLastPath never asks
\* the surface to remove an element it does not hold.
C1_HistoryIsRendered ==
  \A i \in 1..Len(pathHistory) :
    /\ pathHistory[i] \in Range(svgChildren)
    /\ elem[pathHistory[i]].tag = "path"

\* C2: in every reachable state the rendered paths other than currentPath
\* are exactly the entries of pathHistory, in the order in which they were
\* appended to the surface.
C2_RenderedIsHistory == FinishedOnSurface = pathHistory

\* a step in which endPath pushes the path in progress
PushesCurrentPath ==
  /\ currentPath # Null
  /\ pathHistory' = Append(pathHistory, currentPath)

\* C3: a path in progress has at least one point, and every path pushed
\* onto pathHistory has at least two points when it is pushed.
C3_FinalizedHasTwoPoints ==
  [][/\ currentPath' # Null => Len(pathPoints') >= 1
     /\ PushesCurrentPath => Len(pathPoints) >= 2]_vars

(***************************************************************************)
(* The point sequence of a gesture.                                        *)
(***************************************************************************)
\* the length the point sequence should have after the first k accepted
\* extends: the start point, one point per straight extend, two per
\* diagonal one
RECURSIVE PointsAfter(_)
PointsAfter(k) ==
  IF k = 0 THEN 1
  ELSE PointsAfter(k - 1) + (IF jumps[k] = "D" THEN 2 ELSE 1)

\* the pivot the k-th extend, a diagonal one, was given: "H" when the
\* inserted point lies on the row of the point before it, else "V"
PivotOf(k) ==
  IF pathPoints[PointsAfter(k) - 1].y = pathPoints[PointsAfter(k) - 2].y
  THEN "H" ELSE "V"

\* C4: in a gesture every two consecutive points of pathPoints differ in at
\* most one axis, and every diagonal jump has put between the last point L
\* and the new point N one point that differs from L in exactly one axis and
\* from N in exactly one axis.
C4_Orthogonal ==
  currentPath # Null =>
    /\ \A i \in 1..(Len(pathPoints) - 1) :
         ~BothAxesDiffer(pathPoints[i], pathPoints[i + 1])
    /\ Len(pathPoints) = PointsAfter(Len(jumps))
    /\ \A k \in 1..Len(jumps) :
         jumps[k] = "D" =>
           LET n == PointsAfter(k) IN
           /\ BothAxesDiffer(pathPoints[n - 2], pathPoints[n])
           /\ OneAxisDiffers(pathPoints[n - 2], pathPoints[n - 1])
           /\ OneAxisDiffers(pathPoints[n - 1], pathPoints[n])

C4_Witness ==
  /\ currentPath # Null
  /\ jumps = <<"D", "D">>
  /\ Len(pathPoints) = 5

\* a step that is an extend to the raw point (px, py) with a path in progress
Extends(px, py) ==
  /\ isDrawing
  /\ currentPath # Null
  /\ handleMouseMove(px, py)

\* C5: in a gesture no two consecutive points of pathPoints are equal, and
\* an extend whose snapped point is the last recorded grid point leaves the
\* point sequence and the rendered path data as they were.
C5_NoDuplicates ==
  [][/\ \A i \in 1..(Len(pathPoints') - 1) : pathPoints'[i] # pathPoints'[i + 1]
     /\ \A px \in RawX, py \in RawY :
          Extends(px, py) /\ snapToGrid(px, py) = lastGridPoint =>
            /\ pathPoints' = pathPoints
            /\ lastGridPoint' = lastGridPoint
            /\ elem' = elem]_vars

C5_Witness ==
  /\ currentPath # Null
  /\ Len(pathPoints) = 5
  /\ pathPoints[1] = pathPoints[5]
  /\ \E px \in RawX, py \in RawY : snapToGrid(px, py) = lastGridPoint

\* C6: on a diagonal jump from the last point L to the new point N the
\* point sequence grows by exactly two points, N last and before it
\* (N.x, L.y) when the sequence had an even number of points and (L.x, N.y)
\* when it had an odd number.
C6_PivotByParity ==
  [][\A px \in RawX, py \in RawY :
       LET L == lastGridPoint
           N == snapToGrid(px, py)
       IN Extends(px, py) /\ BothAxesDiffer(L, N) =>
            pathPoints' = pathPoints \o
              <<IF Len(pathPoints) % 2 = 0 THEN Point(N.x, L.y) ELSE Point(L.x, N.y),
                N>>]_vars

\* a diagonal jump taken at an even length: the inserted point is (N.x, L.y)
C6_Witness ==
  /\ currentPath # Null
  /\ jumps = <<"S", "D">>
  /\ Len(pathPoints) = 4
  /\ pathPoints[3] = Point(pathPoints[4].x, pathPoints[2].y)

\* C7: of two consecutive diagonal jumps of a gesture the second is given
\* the pivot the first was not given.
C7_PivotAlternates ==
  currentPath # Null /\ Len(pathPoints) = PointsAfter(Len(jumps)) =>
    \A k \in 1..(Len(jumps) - 1) :
      jumps[k] = "D" /\ jumps[k + 1] = "D" => PivotOf(k) # PivotOf(k + 1)

\* C8: with grid size 20 a begin at raw (12,12) records the single point
\* (20,20), and an extend to raw (35,5) that follows it yields the sequence
\* (20,20), (20,0), (40,0).
C8_EndToEnd ==
  [][/\ settings.gridSize = 20 /\ currentType = "line" /\ handleMouseDown(12, 12)
          => pathPoints' = <<Point(20, 20)>>
     /\ settings.gridSize = 20 /\ pathPoints = <<Point(20, 20)>> /\ Extends(35, 5)
          => pathPoints' = <<Point(20, 20), Point(20, 0), Point(40, 0)>>]_vars

C8_Witness ==
  /\ settings.gridSize = 20
  /\ currentPath # Null
  /\ pathPoints = <<Point(20, 20), Point(20, 0), Point(40, 0)>>
  /\ jumps = <<"D">>

(***************************************************************************)
(* Style and finalization.                                                 *)
(***************************************************************************)
\* the style attributes of a path element
StyleOf(e) == <<e.stroke, e.strokeWidth, e.dasharray>>

\* the style the settings describe
ConfiguredStyle ==
  <<settings.lineColor, settings.lineThickness,
    IF settings.isDashed THEN <<settings.dashArray, settings.dashArray>> ELSE <<>>>>

EndsPath == handleMouseUp \/ (isDrawing /\ handleMouseLeave)

\* C10: endPath appends the path in progress, when there is one, to the
\* end of pathHistory, where it then occurs exactly once, and in every case
\* leaves currentPath = null, pathPoints = [] and lastGridPoint = null.
C10_EndPath ==
  [][EndsPath =>
       /\ pathHistory' = IF currentPath # Null
                         THEN pathHistory \o <<currentPath>> ELSE pathHistory
       /\ currentPath # Null =>
            Cardinality({i \in 1..Len(pathHistory') : pathHistory'[i] = currentPath}) = 1
       /\ currentPath' = Null
       /\ pathPoints' = <<>>
       /\ lastGridPoint' = NoPoint]_vars

\* two gestures have been finalized, the builder is idle
C10_Witness ==
  /\ Len(pathHistory) = 2
  /\ pathHistory[1] # pathHistory[2]
  /\ currentPath = Null
  /\ pathPoints = <<>>
  /\ lastGridPoint = NoPoint
  /\ ~isDrawing

(***************************************************************************)
(* Ending a gesture, undo and clear.                                       *)
(***************************************************************************)
\* C11: a mouseleave step is a step a mouseup could have taken from the
\* same state, and a mouseup step is one a mouseleave could have taken: the
\* two events lead to the same state, the path in progress and the
\* rectangle in progress being finalized by either.
C11_LeaveIsUp == [][(MouseLeave => MouseUp) /\ (MouseUp => MouseLeave)]_vars

\* a path gesture and a rectangle gesture have both been ended and kept
C11_Witness ==
  /\ ~isDrawing
  /\ ~rectangleD.isDrawing
  /\ Len(pathHistory) = 1
  /\ elem[pathHistory[1]].d # <<>>
  /\ Len(rectangleD.undoStack) = 1

\* the path elements of the surface with their attributes, bottom-most first
RenderedArtifacts ==
  [i \in 1..Len(RenderedPaths) |-> <<RenderedPaths[i], elem[RenderedPaths[i]]>>]

\* C12: with no path in progress a mousemove, a mouseup and a mouseleave
\* leave pathHistory, pathPoints, currentPath and the path elements of the
\* surface as they were.
C12_IdleNoOps ==
  [][currentPath = Null /\ (\/ \E px \in RawX, py \in RawY : handleMouseMove(px, py)
                            \/ handleMouseUp
                            \/ handleMouseLeave)
       => /\ UNCHANGED <<pathHistory, pathPoints, currentPath>>
          /\ RenderedArtifacts' = RenderedArtifacts]_vars

\* the builder is idle in mode 'box' over a surface that holds a finalized path
C12_Witness ==
  /\ currentPath = Null
  /\ ~isDrawing
  /\ Len(pathHistory) = 1
  /\ pathHistory[1] \in Range(svgChildren)
  /\ currentType = "box"

\* what undo should leave of a non-empty pathHistory and of the surface
UndoneHistory == SubSeq(pathHistory, 1, Len(pathHistory) - 1)
UndoneChildren == RemoveChild(svgChildren, pathHistory[Len(pathHistory)])

\* C13 as stated: in every state in which pathHistory is not empty a click
\* on undo removes its last entry, and that entry's element from the
\* surface, and leaves the earlier entries in order; with an empty
\* pathHistory it changes neither pathHistory nor the surface.
C13_UndoPopsLast ==
  IF Len(pathHistory) > 0
  THEN ENABLED (UndoClick /\ pathHistory' = UndoneHistory
                          /\ svgChildren' = UndoneChildren)
  ELSE ENABLED (UndoClick /\ UNCHANGED <<pathHistory, svgChildren, elem>>)

\* C13, amended: in mode 'line' a click on undo removes the last entry of a
\* non-empty pathHistory, and that entry's element from the surface, and
\* leaves the earlier entries in order; in any other mode, and with an empty
\* pathHistory, it changes neither pathHistory nor the path elements of the
\* surface.
C13_UndoInLineMode ==
  IF currentType = "line" /\ Len(pathHistory) > 0
  THEN ENABLED (UndoClick /\ pathHistory' = UndoneHistory
                          /\ svgChildren' = UndoneChildren
                          /\ pathHistory[Len(pathHistory)] \notin Range(svgChildren'))
  ELSE ENABLED (UndoClick /\ UNCHANGED <<pathHistory, elem>>
                          /\ RenderedArtifacts' = RenderedArtifacts)

\* two finalized paths are rendered, the mode is 'line': undo is to remove
\* the second and leave the first
C13_Witness ==
  /\ currentType = "line"
  /\ Len(pathHistory) = 2
  /\ pathHistory[1] # pathHistory[2]
  /\ Range(pathHistory) \subseteq Range(svgChildren)

\* the rectangles of the surface with their attributes, bottom-most first
RenderedRects ==
  LET isRect(i) == rectElem[i].tag = "rect"
      rects == SelectSeq(svgChildren, isRect)
  IN [i \in 1..Len(rects) |-> <<rects[i], rectElem[rects[i]]>>]

\* the grid group of the surface
RenderedGrid ==
  LET isGrid(i) == elem[i].tag = "g"
      grids == SelectSeq(svgChildren, isGrid)
  IN [i \in 1..Len(grids) |-> <<grids[i], elem[grids[i]]>>]

\* C14: a click on clear leaves no path element on the surface and an
\* empty pathHistory, and leaves the grid, the rectangles of the surface
\* and the undo stack of the rectangles as they were.
C14_ClearKeepsOthers ==
  [][ClearClick =>
       /\ RenderedArtifacts' = <<>>
       /\ pathHistory' = <<>>
       /\ RenderedGrid' = RenderedGrid
       /\ RenderedRects' = RenderedRects
       /\ rectangleD'.undoStack = rectangleD.undoStack]_vars

(***************************************************************************)
(* Export.                                                                 *)
(***************************************************************************)
\* the descriptors of the entries of pathHistory, in order
HistoryDescriptors ==
  [i \in 1..Len(pathHistory) |-> pathData(pathHistory[i])]

\* C15: a click on the export button shows one descriptor for every entry
\* of pathHistory, in the order of pathHistory, and no other, and changes
\* neither pathHistory nor the surface.
C15_ExportIsHistory ==
  [][displayPathsOutput =>
       /\ pathOutput'.textContent = HistoryDescriptors
       /\ UNCHANGED <<pathHistory, svgChildren, elem, rectElem>>]_vars

(***************************************************************************)
(* Rendering a point sequence.                                             *)
(***************************************************************************)
\* a call of generateSmoothPath has returned
Rendered == call.fn = "generateSmoothPath"

\* C16: generateSmoothPath returns the empty description for a sequence of
\* one point, and for a sequence of two points a move-to the first followed
\* by a line-to the second and nothing else.
C16_ShortSequences ==
  Rendered =>
    /\ Len(call.args) = 1 => call.result = <<>>
    /\ Len(call.args) = 2 =>
         call.result = <<[c |-> "M", p |-> call.args[1]],
                         [c |-> "L", p |-> call.args[2]]>>

C16_Witness ==
  /\ Rendered
  /\ Len(call.args) = 2
  /\ Len(call.result) = 2

\* the corner pattern at index i of a point sequence, 1 < i < Len(points)
CornerAt(points, i) ==
  /\ 1 < i /\ i < Len(points)
  /\ \/ points[i - 1].y = points[i].y /\ points[i].x = points[i + 1].x
     \/ points[i - 1].x = points[i].x /\ points[i].y = points[i + 1].y

\* the walk: it starts at the second point, steps from a corner to the point
\* after the corner's successor and from any other point to its successor
RECURSIVE Reached(_, _)
Reached(points, i) ==
  IF i <= 2 THEN i = 2
  ELSE \/ Reached(points, i - 1) /\ ~CornerAt(points, i - 1)
       \/ Reached(points, i - 2) /\ CornerAt(points, i - 2)

\* the number of commands emitted before the walk comes to index i: the
\* move-to, two for every corner it passed and one for every other point
RECURSIVE EmittedBefore(_, _)
EmittedBefore(points, i) ==
  IF i <= 2 THEN 1
  ELSE EmittedBefore(points, i - 1) +
         (IF ~Reached(points, i - 1) THEN 0
          ELSE IF CornerAt(points, i - 1) THEN 2 ELSE 1)

\* C17: every point c the walk reaches that has a predecessor p and a
\* successor s in the corner pattern is emitted as a line-to c followed by
\* one quadratic curve with control point c that ends at s; the walk does
\* not reach s, and the command after the curve, if any, is the line-to of
\* the point after s.
C17_CornerIsCurve ==
  Rendered /\ Len(call.args) >= 2 =>
    \A i \in 2..Len(call.args) :
      Reached(call.args, i) /\ CornerAt(call.args, i) =>
        LET e == EmittedBefore(call.args, i) IN
        /\ Len(call.result) >= e + 2
        /\ call.result[e + 1] = [c |-> "L", p |-> call.args[i]]
        /\ call.result[e + 2] = [c |-> "Q", ctl |-> call.args[i], p |-> call.args[i + 1]]
        /\ ~Reached(call.args, i + 1)
        /\ IF i + 2 <= Len(call.args)
           THEN /\ Len(call.result) >= e + 3
                /\ call.result[e + 3] = [c |-> "L", p |-> call.args[i + 2]]
           ELSE Len(call.result) = e + 2

\* a sequence of four points with a corner at the second, of both kinds
C17_Witness ==
  /\ Rendered
  /\ Len(call.args) = 4
  /\ call.args[1].x = call.args[2].x /\ call.args[2].y = call.args[3].y
  /\ call.args[1].y # call.args[2].y /\ call.args[2].x # call.args[3].x
  /\ Len(call.result) = 4
  /\ call.result[3].c = "Q"

\* C18 as stated: for a sequence of two or more points every interior point
\* that is not in the corner pattern, and the final point, is the target of
\* a line-to of the description.
C18_OthersAreLines ==
  Rendered /\ Len(call.args) >= 2 =>
    \A i \in 2..Len(call.args) :
      ~CornerAt(call.args, i) =>
        \E k \in 1..Len(call.result) : call.result[k] = [c |-> "L", p |-> call.args[i]]

\* C18, amended: for a sequence of two or more points every point the walk
\* reaches that is not in the corner pattern, the final point when the walk
\* reaches it included, is emitted as a line-to with no curve after it; a
\* point the walk skips is the end point of a curve and gets no line-to.
C18_ReachedOthersAreLines ==
  Rendered /\ Len(call.args) >= 2 =>
    \A i \in 2..Len(call.args) :
      LET e == EmittedBefore(call.args, i) IN
      IF Reached(call.args, i)
      THEN ~CornerAt(call.args, i) =>
             /\ Len(call.result) >= e + 1
             /\ call.result[e + 1] = [c |-> "L", p |-> call.args[i]]
             /\ IF i = Len(call.args) THEN Len(call.result) = e + 1
                ELSE /\ Len(call.result) >= e + 2
                     /\ call.result[e + 2].c = "L"
      ELSE /\ call.result[e].c = "Q"
           /\ call.result[e].p = call.args[i]
           /\ i < Len(call.args) => call.result[e + 1].c = "L"

\* a sequence whose final point is skipped as a curve's end point, after a
\* point that is not a corner: (20,20), (40,0), (40,20), (20,20) has the
\* move-to, a line-to, a line-to and a curve
C18_Witness ==
  /\ Rendered
  /\ Len(call.args) = 4
  /\ ~CornerAt(call.args, 2)
  /\ CornerAt(call.args, 3)
  /\ Len(call.result) = 4
  /\ call.result[4].c = "Q"

(***************************************************************************)
(* Snapping.                                                               *)
(***************************************************************************)
\* a call of snapToGrid has returned
Snapped == call.fn = "snapToGrid"

\* the multiples of the grid size around the raw coordinates
Multiples ==
  LET most == MaxRaw \div settings.gridSize + 1
  IN {k * settings.gridSize : k \in (0 - most)..most}

\* r is a multiple of the grid size nearest to the coordinate c
NearestMultiple(c, r) ==
  /\ r \in Multiples
  /\ \A m \in Multiples : Abs(c - r) <= Abs(c - m)

\* c lies halfway between two multiples of the grid size
Halfway(c) == 2 * (c % settings.gridSize) = settings.gridSize

\* C19 as stated: snapToGrid returns, for each axis by itself, the multiple
\* of the grid size nearest to the coordinate, and for a coordinate halfway
\* between two multiples the one farther from zero.
C19_HalfAwayFromZero ==
  Snapped =>
    /\ NearestMultiple(call.args.x, call.result.x)
    /\ NearestMultiple(call.args.y, call.result.y)
    /\ Halfway(call.args.x) => Abs(call.result.x) > Abs(call.args.x)
    /\ Halfway(call.args.y) => Abs(call.result.y) > Abs(call.args.y)

\* C19, amended: snapToGrid returns, for each axis by itself, the multiple
\* of the grid size nearest to the coordinate, and for a coordinate halfway
\* between two multiples the larger one: away from zero for a positive
\* coordinate, toward zero for a negative one.
C19_HalfUp ==
  Snapped =>
    /\ NearestMultiple(call.args.x, call.result.x)
    /\ NearestMultiple(call.args.y, call.result.y)
    /\ Halfway(call.args.x) => call.result.x > call.args.x
    /\ Halfway(call.args.y) => call.result.y > call.args.y

\* a negative and a positive coordinate, both halfway, have been snapped
C19_Witness ==
  /\ Snapped
  /\ call.args.x < 0 /\ Halfway(call.args.x)
  /\ call.args.y > 0 /\ Halfway(call.args.y)
  /\ Abs(call.result.x) < Abs(call.args.x)
  /\ Abs(call.result.y) > Abs(call.args.y)

\* C20: whatever the grid size, snapToGrid called on a point it returned
\* returns that point.
C20_Idempotent ==
  [][callSnapToGridAgain => call'.result = call.result]_vars

\* snapToGrid has been called on a point of the grid, off both axes, as the
\* second call of a pair is, and has returned it
C20_Witness ==
  /\ Snapped
  /\ call.args = call.result
  /\ call.result.x < 0
  /\ call.result.y > 0

(***************************************************************************)
(* The grid.                                                               *)
(***************************************************************************)
\* a coordinate that lies on a line of the grid of the configured size
OnGrid(c) == c % settings.gridSize = 0

\* C21: in every reachable state both coordinates of every point of
\* pathPoints are multiples of the configured grid size, a change of the
\* grid size during a gesture included.
C21_PointsOnGrid ==
  \A i \in 1..Len(pathPoints) :
    OnGrid(pathPoints[i].x) /\ OnGrid(pathPoints[i].y)

\* a call of drawGrid has returned
GridDrawn == call.fn = "drawGrid" /\ call.pc = "done"

\* the lines of the grid group that run from the top edge to the bottom edge
\* and those that run from the left edge to the right edge
VerticalLines ==
  LET vertical(l) == l.y1 = 0 /\ l.y2 = call.args.height /\ l.x1 = l.x2
  IN SelectSeq(call.result, vertical)
HorizontalLines ==
  LET horizontal(l) == l.x1 = 0 /\ l.x2 = call.args.width /\ l.y1 = l.y2
  IN SelectSeq(call.result, horizontal)

\* the multiples of the grid size from 0 to the limit, the limit included
MultiplesUpTo(limit) == {m \in 0..limit : m % settings.gridSize = 0}

C23_GridBeneath ==
  /\ Len(RenderedGrid) = 1
  /\ elem[svgChildren[1]] = GridGroup(settings.gridSize)
  /\ \A i \in 2..Len(svgChildren) :
       \/ elem[svgChildren[i]].tag = "path"
       \/ rectElem[svgChildren[i]].tag \in {"rect", "text"}

\* the grid was redrawn for another size under a path, a rectangle and its
\* label
C23_Witness ==
  /\ settings.gridSize = 30
  /\ \E i \in 2..Len(svgChildren) : elem[svgChildren[i]].tag = "path"
  /\ \E i \in 2..Len(svgChildren) : rectElem[svgChildren[i]].tag = "rect"
  /\ \E i \in 2..Len(svgChildren) : rectElem[svgChildren[i]].tag = "text"

(***************************************************************************)
(* Rectangles.                                                             *)
(***************************************************************************)
\* a step that is a mousemove to the raw point (px, py) during a rectangle
\* drag
Drags(px, py) ==
  /\ rectangleD.isDrawing
  /\ drawRectangle(px, py)

\* the axis-aligned bounding box of two points
BoundingBox(p, q) ==
  [x |-> Min({p.x, q.x}), y |-> Min({p.y, q.y}),
   width |-> Abs(q.x - p.x), height |-> Abs(q.y - p.y)]

\* the geometry of a rectangle element
BoxOf(e) == [x |-> e.x, y |-> e.y, width |-> e.width, height |-> e.height]

\* C24: after every mousemove of a rectangle drag the rectangle in progress
\* is the bounding box of the snapped point of the mousedown that began the
\* drag and the snapped point of the mousemove, whatever moves came before.
C24_BoundingBox ==
  [][\A px \in RawX, py \in RawY :
       Drags(px, py) =>
         BoxOf(rectElem'[rectangleD.currentRect]) =
           BoundingBox(rectangleD.dragStart, getGridSnappedCoords(px, py))]_vars

\* a step in which stopDrawing ends the drag of a rectangle
Finalizes == rectangleD.isDrawing /\ stopDrawing

\* a rectangle element with no side of length zero
HasSize(e) == e.width # 0 /\ e.height # 0

\* C25: stopDrawing pushes the rectangle of the drag onto undoStack if and
\* only if its width and its height are both nonzero; a rectangle with a
\* side of length zero is in undoStack in no state, and one of width 5 and
\* height 5 is pushed.
C25_PushedIffSized ==
  [][/\ \A i \in 1..Len(rectangleD'.undoStack) :
          HasSize(rectElem'[rectangleD'.undoStack[i]])
     /\ Finalizes =>
          LET rect == rectangleD.currentRect IN
          /\ rectangleD'.undoStack =
               IF HasSize(rectElem[rect])
               THEN Append(rectangleD.undoStack, rect) ELSE rectangleD.undoStack
          /\ rectElem[rect].width = 5 /\ rectElem[rect].height = 5 =>
               rect \in Range(rectangleD'.undoStack)]_vars

\* a rectangle of width 5 and height 5 is in undoStack, and a rectangle
\* whose drag ended with a side of length zero is on the surface and not in
\* undoStack
C25_Witness ==
  /\ ~rectangleD.isDrawing
  /\ \E r \in Range(rectangleD.undoStack) :
       rectElem[r].width = 5 /\ rectElem[r].height = 5
  /\ \E r \in Range(svgChildren) :
       /\ rectElem[r].tag = "rect"
       /\ ~HasSize(rectElem[r])
       /\ r \notin Range(rectangleD.undoStack)

\* C26: a drag that ends with a rectangle of width zero or height zero
\* leaves on the surface the rectangles that were there before it began,
\* so not the rectangle it created, and leaves undoStack as it was.
C26_DegenerateLeavesNothing ==
  [][Finalizes /\ ~HasSize(rectElem[rectangleD.currentRect]) =>
       /\ rectangleD.currentRect \notin Range(svgChildren')
       /\ rectangleD'.undoStack = rectangleD.undoStack]_vars

(***************************************************************************)
(* Selection.                                                              *)
(***************************************************************************)
\* the rectangles that carry the class selected-rect
Marked == {i \in ElemIds : rectElem[i].tag = "rect" /\ rectElem[i].selected}

\* the rectangle selectedRect references, if any, and no other, is marked
OnlySelectedMarked ==
  Marked = IF rectangleD.selectedRect = Null THEN {} ELSE {rectangleD.selectedRect}

\* a step in which startDrawing creates a rectangle
StartsRect ==
  /\ rectangleD'.currentRect # Null
  /\ rectangleD'.currentRect # rectangleD.currentRect

\* a step that selects a rectangle other than the selected one
SelectsOther ==
  /\ rectangleD'.selectedRect # Null
  /\ rectangleD'.selectedRect # rectangleD.selectedRect

\* a click on undo removes a rectangle from the surface
UndoRemovesRect ==
  /\ currentType # "line"
  /\ Len(rectangleD.undoStack) > 0
  /\ rectangleD.undoStack[Len(rectangleD.undoStack)] \in Range(svgChildren)

\* C27 as stated: in every state the only rectangle that is marked is the
\* one selectedRect references; a step that selects another rectangle
\* leaves the one selected before unmarked; a step that begins a rectangle
\* leaves no selection; and a click on undo leaves no selection.
C27_OneSelected ==
  /\ [](OnlySelectedMarked /\ ENABLED (UndoClick /\ rectangleD'.selectedRect = Null))
  /\ [][/\ SelectsOther => Marked' = {rectangleD'.selectedRect}
        /\ StartsRect => rectangleD'.selectedRect = Null /\ Marked' = {}]_vars

\* C27, amended: in every state the only rectangle that is marked is the
\* one selectedRect references; a step that selects another rectangle
\* leaves the one selected before unmarked; a step that begins a rectangle
\* leaves no selection; a click on undo that removes a rectangle from the
\* surface leaves no selection, and a click on undo that removes none (in
\* mode 'line', with an empty undoStack, or for a rectangle that is no
\* longer on the surface) leaves the selection as it was.
C27_OneSelectedUndoRemoves ==
  /\ [](/\ OnlySelectedMarked
        /\ IF UndoRemovesRect
           THEN ENABLED (UndoClick /\ rectangleD'.selectedRect = Null /\ Marked' = {})
           ELSE ENABLED (UndoClick /\ rectangleD'.selectedRect = rectangleD.selectedRect
                                   /\ Marked' = Marked))
  /\ [][/\ SelectsOther => Marked' = {rectangleD'.selectedRect}
        /\ StartsRect => rectangleD'.selectedRect = Null /\ Marked' = {}]_vars

\* two rectangles are on the surface and in undoStack, and the one drawn
\* first is selected: a click on undo is to clear the selection
C27_Witness ==
  /\ Len(rectangleD.undoStack) = 2
  /\ Range(rectangleD.undoStack) \subseteq Range(svgChildren)
  /\ rectangleD.selectedRect = rectangleD.undoStack[1]
  /\ rectElem[rectangleD.selectedRect].selected
  /\ currentType = "box"

(***************************************************************************)
(* Labels.                                                                 *)
(***************************************************************************)
\* a call of update_text has set the font size of a label
Labelled == call.fn = "update_text"

\* fractions, and their order
Frac(n, d) == [num |-> n, den |-> d]
Leq(a, b) == a.num * b.den <= b.num * a.den
Same(a, b) == a.num * b.den = b.num * a.den

\* width / (text.length * 0.7), and height / 2, for the arguments of the call
Wanted == Frac(10 * call.args.width, 7 * Len(call.args.text))
HalfHeight == Frac(call.args.height, 2)

\* C28 as stated: the font size of the label is at least 12 and at most
\* half the height of the rectangle; for width 100, height 40 and the text
\* "Hi" it lies between 12 and 20.
C28_FontSizeInRange ==
  Labelled =>
    /\ Leq(Frac(12, 1), call.result)
    /\ Leq(call.result, HalfHeight)
    /\ call.args = [width |-> 100, height |-> 40, text |-> <<"H", "i">>] =>
         Leq(Frac(12, 1), call.result) /\ Leq(call.result, Frac(20, 1))

\* C28, amended: the font size of the label is never more than half the
\* height of the rectangle.  For a height of 24 or more it is the quotient
\* width / (0.7 * length of the text) brought into the range from 12 to
\* half the height; for a height of less than 24 it is half the height, which
\* is less than 12.  For width 100, height 40 and the text "Hi" it lies
\* between 12 and 20.
C28_FontSizeAtMostHalf ==
  Labelled =>
    /\ Leq(call.result, HalfHeight)
    /\ IF call.args.height >= 24
       THEN /\ Leq(Frac(12, 1), call.result)
            /\ Leq(Frac(12, 1), Wanted) /\ Leq(Wanted, HalfHeight) => Same(call.result, Wanted)
            /\ Leq(Wanted, Frac(12, 1)) => Same(call.result, Frac(12, 1))
            /\ Leq(HalfHeight, Wanted) => Same(call.result, HalfHeight)
       ELSE Same(call.result, HalfHeight)
    /\ call.args = [width |-> 100, height |-> 40, text |-> <<"H", "i">>] =>
         Leq(Frac(12, 1), call.result) /\ Leq(call.result, Frac(20, 1))

\* the label "Hi" of the rectangle of width 100 and height 40 has the font
\* size 20
C28_Witness ==
  /\ Labelled
  /\ call.args = [width |-> 100, height |-> 40, text |-> <<"H", "i">>]
  /\ Same(call.result, Frac(20, 1))

(***************************************************************************)
(* C29: a submit with a blank name or an empty description aborts.         *)
(***************************************************************************)
\* a click on the submit button with the fields holding name and description
SubmitOf(name, description) == submit_button(name, description) /\ DialogFrame

\* a text that is empty or consists of white space only
OnlySpaces(str) == \A i \in 1..Len(str) : str[i] \in {" ", "\t", "\n"}

\* the step changes the descriptions store, a label or the selection
LabelsOf(e) == [i \in ElemIds |-> IF e[i].tag = "text" THEN e[i] ELSE NoElem]
TouchesStored ==
  \/ rectangleD'.descriptions # rectangleD.descriptions
  \/ rectangleD'.text_rects # rectangleD.text_rects
  \/ LabelsOf(rectElem') # LabelsOf(rectElem)
  \/ svgChildren' # svgChildren
  \/ rectangleD'.selectedRect # rectangleD.selectedRect
  \/ rectangleD'.selectedRectTXT # rectangleD.selectedRectTXT

\* C29: in every state, a submit whose name is empty or consists of white
\* space only, or whose description is empty, can be made and no such
\* submit changes the descriptions store, a label of a rectangle or the
\* selection.
C29_BlankSubmitAborts ==
  \A name \in Names, description \in Descriptions :
    OnlySpaces(name) \/ description = <<>> =>
      /\ ENABLED SubmitOf(name, description)
      /\ ~ENABLED (SubmitOf(name, description) /\ TouchesStored)

\* the editor is open over a rectangle that is selected, labelled "A" and
\* described, and a submit with a name of white space can be made
C29_Witness ==
  /\ rectangleD.view = "editor"
  /\ rectangleD.selectedRect # Null
  /\ rectangleD.selectedRectTXT = rectangleD.selectedRect
  /\ StoredFor(rectangleD.selectedRect) = <<<<"A">>, <<"d">>>>
  /\ \E i \in 1..Len(rectangleD.text_rects) :
        /\ rectangleD.text_rects[i][1] = rectangleD.selectedRect
        /\ rectElem[rectangleD.text_rects[i][2]].textContent = <<"A">>
  /\ ENABLED SubmitOf(<<" ", " ">>, <<"d">>)

(***************************************************************************)
(* C30: the drawing mode routes a gesture to one component.                *)
(***************************************************************************)
\* a mousedown on the surface: both listeners run
MouseDownAt ==
  \E px \in RawX, py \in RawY : \E clickedRect \in closestRect(px, py) :
    handleMouseDown(px, py) /\ RectangleDrawer_handleMouseDown(px, py, clickedRect)

\* the step starts a path: a new path element on the surface is the path in
\* progress
PathStarted ==
  /\ isDrawing'
  /\ currentPath' # Null /\ elem[currentPath'] = NoElem
  /\ elem'[currentPath'].tag = "path"
  /\ svgChildren' = Append(svgChildren, currentPath')
  /\ Len(pathPoints') = 1

\* the step leaves the path builder as it was
PathBuilderIdle ==
  UNCHANGED <<currentPath, pathPoints, lastGridPoint, pathHistory, isDrawing, elem>>

\* the step creates a rectangle on the surface, or marks one as selected
RectCreated ==
  /\ rectangleD'.isDrawing
  /\ rectangleD'.currentRect # Null /\ rectElem[rectangleD'.currentRect] = NoElem
  /\ rectElem'[rectangleD'.currentRect].tag = "rect"
  /\ svgChildren' = Append(svgChildren, rectangleD'.currentRect)
RectSelected ==
  /\ rectangleD'.selectedRect # Null
  /\ rectElem'[rectangleD'.selectedRect].selected
  /\ UNCHANGED svgChildren

\* C30: a mousedown in mode "line" starts a path and leaves the rectangle
\* editor, its rectangles and its selection as they were; a mousedown in
\* mode "box" creates or selects a rectangle and leaves the path builder, the
\* path elements and pathHistory as they were; and while no path is in
\* progress, as after a mousedown in mode "box", no step extends
\* pathHistory.
C30_ModeRoutes ==
  [][/\ MouseDownAt =>
          IF currentType = "line"
          THEN PathStarted /\ pathHistory' = pathHistory /\ UNCHANGED <<rectangleD, rectElem>>
          ELSE PathBuilderIdle /\ (RectCreated \/ RectSelected)
     /\ ~isDrawing /\ ~isDrawing' => Len(pathHistory') <= Len(pathHistory)]_vars

\* a path was begun in mode "line" on a rectangle, and the rectangle is
\* not selected
C30_Witness ==
  /\ currentType = "line" /\ isDrawing /\ Len(pathPoints) = 1
  /\ rectangleD.selectedRect = Null /\ ~rectangleD.isDrawing
  /\ \E r \in Range(svgChildren) :
        /\ rectElem[r].tag = "rect" /\ ~rectElem[r].selected
        /\ rectElem[r].width > 0 /\ rectElem[r].height > 0
        /\ IsOver(r, pathPoints[1].x, pathPoints[1].y)

(***************************************************************************)
(* C31: the undo button pops one of the two stacks.                        *)
(***************************************************************************)
\* the children of the surface that are rectangles or labels, and those that
\* are paths, bottom-most first
RectChildren(children) == LET isRect(i) == rectElem[i] # NoElem IN SelectSeq(children, isRect)
PathChildren(children) == LET isPath(i) == elem[i].tag = "path" IN SelectSeq(children, isPath)

\* the step leaves the rectangle editor and every rectangle and label as
\* they were
RectsUntouched ==
  /\ UNCHANGED <<rectangleD, rectElem>>
  /\ RectChildren(svgChildren') = RectChildren(svgChildren)

\* the step leaves the path builder and every path as they were
PathsUntouched ==
  /\ UNCHANGED <<pathHistory, elem, currentPath, pathPoints, lastGridPoint, isDrawing>>
  /\ PathChildren(svgChildren') = PathChildren(svgChildren)

\* a sequence without its last entry, the empty sequence being left as it is
Popped(stack) == IF Len(stack) = 0 THEN stack ELSE SubSeq(stack, 1, Len(stack) - 1)

\* the step does to the two stacks what the mode asks for
UndoesOne ==
  IF currentType = "line"
  THEN pathHistory' = Popped(pathHistory) /\ RectsUntouched
  ELSE rectangleD'.undoStack = Popped(rectangleD.undoStack) /\ PathsUntouched

\* C31: in every state a click on the undo button changes at most one of
\* pathHistory and the undo stack of the rectangles: in mode "line" it pops
\* pathHistory and leaves the undo stack, the rectangle editor and every
\* rectangle as they were; in any other mode it pops the undo stack and
\* leaves pathHistory, the path builder and every path as they were.
C31_UndoPopsOne ==
  /\ ENABLED (UndoClick /\ UndoesOne)
  /\ ~ENABLED (UndoClick /\ ~UndoesOne)

\* both stacks hold an entry that is on the surface, in mode "line"
C31_Witness ==
  /\ currentType = "line"
  /\ Len(pathHistory) > 0 /\ pathHistory[Len(pathHistory)] \in Range(svgChildren)
  /\ Len(rectangleD.undoStack) > 0
  /\ rectangleD.undoStack[Len(rectangleD.undoStack)] \in Range(svgChildren)
  /\ ENABLED (UndoClick /\ Len(pathHistory') < Len(pathHistory))

(***************************************************************************)
(* C32: a submit stores under the rectangle it relabels.                   *)
(***************************************************************************)
\* the text of the label of a rectangle in a state given by the record of
\* the rectangle editor and the elements, <<>> where it has none
LabelOf(rect, rd, e) ==
  LET isFor(pair) == pair[1] = rect
      pairs == SelectSeq(rd.text_rects, isFor)
  IN IF Len(pairs) > 0 THEN e[pairs[Len(pairs)][2]].textContent ELSE <<>>

\* what is stored for a rectangle in a descriptions sequence
StoredIn(descriptions, rect) ==
  LET isFor(entry) == entry[1] = rect
      rectInfo == SelectSeq(descriptions, isFor)
  IN IF Len(rectInfo) > 0 THEN rectInfo[1][2] ELSE <<>>

\* after the step the pair is stored under the rectangle whose double click
\* opened the editor, and the label of that rectangle is the name
StoredAndLabelled(name, description) ==
  /\ StoredIn(rectangleD'.descriptions, rectangleD.edited) = <<name, description>>
  /\ LabelOf(rectangleD.edited, rectangleD', rectElem') = name

\* C32: in every state in which the editor is open after a double click on
\* a rectangle R, in either mode and whatever rectangle is selected, a
\* submit with a name and a description that are not blank stores the pair
\* under R and rewrites the label of R to the name.
C32_StoredUnderEdited ==
  rectangleD.view = "editor" /\ rectangleD.edited # Null =>
    \A name \in Names, description \in Descriptions :
      ~OnlySpaces(name) /\ ~OnlySpaces(description) =>
        /\ ENABLED SubmitOf(name, description)
        /\ ~ENABLED (SubmitOf(name, description) /\ ~StoredAndLabelled(name, description))

(***************************************************************************)
(* C33: the two components are never both in progress.                     *)
(***************************************************************************)
\* C33: under the order of the events of one pointer, in every state
\* GridDrawingApp.isDrawing and RectangleDrawer.isDrawing are not both
\* true, whenever the mode is toggled.
C33_NotBothDrawing == ~(isDrawing /\ rectangleD.isDrawing)

\* the mode was toggled during a gesture: a rectangle that has been given a
\* size is in progress in mode "line", or a path of two points or more in
\* mode "box"
C33_Witness ==
  /\ pointerDown
  /\ \/ /\ currentType = "line" /\ rectangleD.isDrawing
        /\ rectElem[rectangleD.currentRect].width > 0
     \/ currentType = "box" /\ isDrawing /\ Len(pathPoints) >= 2

(***************************************************************************)
(* C34: the fields of the path builder agree.                              *)
(***************************************************************************)
\* C34: in every state isDrawing is true exactly when currentPath is not
\* null; then pathPoints is not empty and lastGridPoint is its last
\* element; and when isDrawing is false pathPoints is empty and
\* lastGridPoint is null.
C34_BuilderFieldsAgree ==
  /\ isDrawing <=> currentPath # Null
  /\ isDrawing => Len(pathPoints) > 0 /\ lastGridPoint = pathPoints[Len(pathPoints)]
  /\ ~isDrawing => pathPoints = <<>> /\ lastGridPoint = NoPoint

\* a gesture has been extended by a diagonal jump
C34_Witness ==
  /\ isDrawing /\ Len(pathPoints) >= 3 /\ Len(jumps) > 0 /\ jumps[Len(jumps)] = "D"
  /\ lastGridPoint = pathPoints[Len(pathPoints)]

(***************************************************************************)
(* C35: the pivot of the diagonal jumps of a gesture.                      *)
(***************************************************************************)
\* the number of straight extends among the first k accepted extends
RECURSIVE StraightAmong(_)
StraightAmong(k) ==
  IF k = 0 THEN 0
  ELSE StraightAmong(k - 1) + (IF jumps[k] = "S" THEN 1 ELSE 0)

\* the point the k-th extend, a diagonal one, inserted takes the x of the
\* point before the jump and the y of the new point
VerticalFirst(k) ==
  LET n == PointsAfter(k)
  IN pathPoints[n - 1] = Point(pathPoints[n - 2].x, pathPoints[n].y)

EndPoints(commands) == [j \in 1..Len(commands) |-> commands[j].p]

\* C36: for every point sequence of two points or more the end points of
\* the commands generateSmoothPath returns, in their order, are the
\* points of the sequence in their order, and no quadratic curve follows a
\* quadratic curve.
C36_EndPointsAreInput ==
  Rendered /\ Len(call.args) >= 2 =>
    /\ EndPoints(call.result) = call.args
    /\ \A j \in 1..(Len(call.result) - 1) :
         ~(call.result[j].c = "Q" /\ call.result[j + 1].c = "Q")

\* the path data of four points with a corner at the second: a move-to, a
\* line-to, a curve and a line-to
C36_Witness ==
  /\ Rendered /\ Len(call.args) = 4
  /\ Len(call.result) = 4
  /\ call.result[3].c = "Q" /\ call.result[3].p = call.args[3]
  /\ call.result[4].c = "L" /\ call.result[4].p = call.args[4]

(***************************************************************************)
(* C37: the rectangles of the undo stack are on the surface.               *)
(***************************************************************************)
\* C37: in every state every rectangle of the undo stack of the rectangle
\* editor is a child of the surface, so that the rectangle a click on undo
\* pops is on the surface, after a click on the clear button too.
C37_StackIsRendered ==
  \A i \in 1..Len(rectangleD.undoStack) : rectangleD.undoStack[i] \in Range(svgChildren)

(***************************************************************************)
(* C38: the labels of the rectangles.                                      *)
(***************************************************************************)
\* the labels on the surface that text_rects attaches to a rectangle, and
\* the text elements of the surface
LabelsOn(rect, rd, children) ==
  {i \in 1..Len(rd.text_rects) :
     rd.text_rects[i][1] = rect /\ rd.text_rects[i][2] \in Range(children)}
TextsOn(children) == {t \in Range(children) : rectElem[t].tag = "text"}

\* every text of the surface is the label of one rectangle, and no
\* rectangle has two
AtMostOneLabel ==
  /\ \A t \in TextsOn(svgChildren) : t \in PairTexts(rectangleD.text_rects)
  /\ \A r \in ElemIds : Cardinality(LabelsOn(r, rectangleD, svgChildren)) <= 1

\* the step is a click on undo that removes the rectangle from the surface
UndoRemoves(rect) ==
  /\ Len(rectangleD.undoStack) > 0
  /\ rect = rectangleD.undoStack[Len(rectangleD.undoStack)]
  /\ rectangleD'.undoStack = Popped(rectangleD.undoStack)
  /\ rect \in Range(svgChildren) /\ rect \notin Range(svgChildren')

\* C38: in every state a rectangle has at most one label on the surface;
\* and after a click on undo that removes a rectangle no label of that
\* rectangle is on the surface or in text_rects.
C38_OneLabelNoneAfterUndo ==
  /\ []AtMostOneLabel
  /\ [][\A r \in ElemIds :
          UndoRemoves(r) =>
            /\ r \notin PairRects(rectangleD'.text_rects)
            /\ \A i \in 1..Len(rectangleD.text_rects) :
                 rectangleD.text_rects[i][1] = r =>
                   rectangleD.text_rects[i][2] \notin Range(svgChildren')]_vars

(***************************************************************************)
(* C39: a click on Start sets every packet running.                        *)
(***************************************************************************)
\* a click on the Start button
StartClick == startAnimation /\ PacketFrame

\* every packet of the list is running, and so is the manager
AllRunning(pm) ==
  /\ pm.animationState = "running"
  /\ \A i \in 1..Len(pm.packets) : pm.packets[i].state = "running"

\* C39: in every state in which the Start button can be clicked, a click
\* on it leaves every packet of the list in the state 'running' and
\* animationState at 'running', a packet added while others were running
\* included.
C39_StartRunsAll ==
  ~packetManager.startDisabled =>
    /\ ENABLED StartClick
    /\ ~ENABLED (StartClick /\ ~AllRunning(packetManager'))

====
